---- MODULE Spec2Model ----
(***************************************************************************)
(* Snipe analysis server: the checker pipeline (array bounds, signature    *)
(* drift, type consistency, unsafe functions), the diagnostic aggregation  *)
(* and the process-wide repository symbol index of backend/server.py.      *)
(***************************************************************************)
EXTENDS Integers, Sequences, FiniteSets, TLC

VARIABLES
  buffer_refs,      \* list[Reference] handed to a checker
  buffer_symbols,   \* list[Symbol] of the buffer being analysed
  repo_symbols,     \* list[dict] handed to a checker (repo_dicts in analyze)
  current_file,     \* the checker's current_file argument
  checker_out,      \* the lists the checkers returned, in pipeline order
  diagnostics,      \* the list a checker, or the aggregation, produced
  pc,               \* which function has run on the inputs above
  _repo_symbols,    \* server.py global: cached flat symbol list
  _repo_path,       \* server.py global: root the cache was built for
  _repo_mtime,      \* server.py global: max mtime recorded by _ensure_repo_symbols
  fs_mtime,         \* file system: max mtime of recognized files, per root
  built_from,       \* history: the root and its max mtime at the Builder's last run
  last,             \* history: the last request and what it returned
  grammars          \* the languages whose tree-sitter grammar the process can import

vars == <<buffer_refs, buffer_symbols, repo_symbols, current_file, checker_out,
          diagnostics, pc, _repo_symbols, _repo_path, _repo_mtime, fs_mtime,
          built_from, last, grammars>>

checkerVars == <<buffer_refs, buffer_symbols, repo_symbols, current_file,
                 checker_out, diagnostics, pc>>
serverVars == <<_repo_symbols, _repo_path, _repo_mtime, fs_mtime, built_from, last,
                grammars>>

-----------------------------------------------------------------------------
(* Bounds of the model *)

MaxRefs == 2
MaxRepo == 2
MaxBuf == 1
MaxSize == 2

MaxThreads == 2

-----------------------------------------------------------------------------
(* Python values *)

\* Optional[T]: None is the empty tuple, a set value v is <<v>>.
None == <<>>
Some(v) == <<v>>

SeqsUpTo(S, n) == UNION {[1..k -> S] : k \in 0..n}

MaxOf(S) == CHOOSE x \in S : \A y \in S : y <= x

\* dataclass Reference
Reference(name, kind, inferred_type, line, index_value, arg_count) ==
  [name |-> name, kind |-> kind, inferred_type |-> inferred_type, line |-> line,
   index_value |-> index_value, arg_count |-> arg_count]

\* dataclass Symbol and its to_dict() record (an absent key reads as None)
Symbol(name, kind, type, file_path, line, array_size, params, is_variadic) ==
  [name |-> name, kind |-> kind, type |-> type, file_path |-> file_path,
   line |-> line, array_size |-> array_size, params |-> params,
   is_variadic |-> is_variadic]

\* dataclass Diagnostic; the f-string message is kept as its format and its fields
Diagnostic(file, line, severity, code, message) ==
  [file |-> file, line |-> line, severity |-> severity, code |-> code,
   message |-> message]

Message(fmt, name, nums, strs) ==
  [fmt |-> fmt, name |-> name, nums |-> nums, strs |-> strs]

\* A str is the sequence of its atoms: separators, words and file extensions.
EmptyStr == <<>>
Str(word) == <<word>>
File(stem, ext) == <<stem, ext>>

\* dict.get(key)
DictGet(d, k) == IF k \in DOMAIN d THEN Some(d[k]) ELSE None

EmptyDict == [k \in {} |-> None]

-----------------------------------------------------------------------------
(* analyzer/bounds_checker.py *)

\* first loop: repo symbols with an array_size, later entries overwrite earlier
RECURSIVE RepoSizes(_, _)
RepoSizes(size_by_name, syms) ==
  IF syms = <<>> THEN size_by_name
  ELSE LET s == Head(syms)
       IN RepoSizes(IF s.array_size # None
                    THEN (s.name :> [size |-> s.array_size[1], file |-> s.file_path,
                                     line |-> s.line]) @@ size_by_name
                    ELSE size_by_name,
                    Tail(syms))

\* second loop: buffer symbols overwrite repo entries of the same name
RECURSIVE BufferSizes(_, _, _)
BufferSizes(size_by_name, syms, cf) ==
  IF syms = <<>> THEN size_by_name
  ELSE LET s == Head(syms)
       IN BufferSizes(IF s.array_size # None
                      THEN (s.name :> [size |-> s.array_size[1],
                                       file |-> IF s.file_path = EmptyStr THEN cf ELSE s.file_path,
                                       line |-> s.line]) @@ size_by_name
                      ELSE size_by_name,
                      Tail(syms), cf)

OutOfBoundsOffByOne(index_value, size) == index_value < 0 \/ index_value > size

\* if ref.index_value < 0 or ref.index_value >= size
OutOfBounds(index_value, size) == index_value < 0 \/ index_value >= size

BoundsDiagnostic(ref, decl, cf) ==
  Diagnostic(cf, ref.line, "ERROR", "SNIPE_ARRAY_BOUNDS",
             Message("Index {} exceeds declared size {} for {} (declared in {}:{})",
                     ref.name, <<ref.index_value[1], decl.size, decl.line>>,
                     <<decl.file>>))

RECURSIVE BoundsLoop(_, _, _)
BoundsLoop(refs, size_by_name, cf) ==
  IF refs = <<>> THEN <<>>
  ELSE LET ref == Head(refs)
           decl == DictGet(size_by_name, ref.name)
           emitted ==
             IF ref.kind # "array_access" \/ ref.index_value = None THEN <<>>
             ELSE IF decl = None THEN <<>>
             ELSE IF OutOfBounds(ref.index_value[1], decl[1].size)
                  THEN <<BoundsDiagnostic(ref, decl[1], cf)>>
                  ELSE <<>>
       IN emitted \o BoundsLoop(Tail(refs), size_by_name, cf)

check_array_bounds(refs, bsyms, rsyms, cf) ==
  BoundsLoop(refs, BufferSizes(RepoSizes(EmptyDict, rsyms), bsyms, cf), cf)

-----------------------------------------------------------------------------
(* Inputs of the array-bounds checker *)

ArraySizes == {0, MaxSize}
IndexValues == (0 - 1)..(MaxSize + 1)

BoundsRefShapes ==
  {Reference("arr", "array_access", None, 0, iv, None) :
     iv \in {None} \cup {Some(i) : i \in IndexValues}}
  \cup {Reference("arr", "read", None, 0, None, None),
        Reference("arr", "call", None, 0, None, Some(1))}

BoundsRepoSymbols ==
  {Symbol("arr", "array", Some(Str("int")), File("core", ".c"), 5, Some(n), <<>>, None) : n \in ArraySizes}
  \cup {Symbol("arr", "variable", Some(Str("int")), File("core", ".c"), 5, None, <<>>, None),
        Symbol("buf", "array", Some(Str("char")), File("core", ".c"), 7, Some(MaxSize), <<>>, None)}

BoundsBufferSymbols ==
  {Symbol("arr", "array", Some(Str("int")), File("main", ".c"), 2, Some(n), <<>>, None) : n \in {1, MaxSize}}
  \cup {Symbol("arr", "variable", Some(Str("int")), File("main", ".c"), 2, None, <<>>, None)}

\* the adapters give every reference its source line; the model numbers them in order
Numbered(shapes) == [i \in DOMAIN shapes |-> [shapes[i] EXCEPT !.line = i]]

IdleServer ==
  /\ _repo_symbols = <<>>
  /\ _repo_path = None
  /\ _repo_mtime = 0
  /\ fs_mtime = EmptyDict
  /\ built_from = None
  /\ last = [op |-> "none"]
  /\ grammars = {"python", "c"}

BoundsInit ==
  /\ buffer_refs \in {Numbered(s) : s \in SeqsUpTo(BoundsRefShapes, MaxRefs)}
  /\ buffer_symbols \in SeqsUpTo(BoundsBufferSymbols, MaxBuf)
  /\ repo_symbols \in SeqsUpTo(BoundsRepoSymbols, MaxRepo)
  /\ current_file = File("main", ".c")
  /\ checker_out = <<>>
  /\ diagnostics = <<>>
  /\ pc = "input"
  /\ IdleServer

RunCheckArrayBounds ==
  /\ pc = "input"
  /\ diagnostics' = check_array_bounds(buffer_refs, buffer_symbols, repo_symbols, current_file)
  /\ pc' = "bounds_done"
  /\ UNCHANGED <<buffer_refs, buffer_symbols, repo_symbols, current_file, checker_out>>
  /\ UNCHANGED serverVars

BoundsNext == RunCheckArrayBounds

BoundsSpec == BoundsInit /\ [][BoundsNext]_vars

-----------------------------------------------------------------------------
(* Reading a checker's result *)

\* the diagnostics reported at a reference's line
DiagnosticsAt(line) == SelectSeq(diagnostics, LAMBDA d : d.line = line)

\* the declared size a name is known by: the last buffer declaration carrying one,
\* else the last repo declaration carrying one
SizedIn(syms, name) ==
  {j \in DOMAIN syms : syms[j].name = name /\ syms[j].array_size # None}

KnownSize(name) ==
  IF SizedIn(buffer_symbols, name) # {}
  THEN buffer_symbols[MaxOf(SizedIn(buffer_symbols, name))].array_size
  ELSE IF SizedIn(repo_symbols, name) # {}
  THEN repo_symbols[MaxOf(SizedIn(repo_symbols, name))].array_size
  ELSE None

\* C1: an array_access reference with literal index i and known size n gets exactly
\* one SNIPE_ARRAY_BOUNDS ERROR citing i and n iff i < 0 or i >= n; every other
\* reference gets no bounds diagnostic.
C1_BoundsIff ==
  pc = "bounds_done" =>
    \A k \in DOMAIN buffer_refs :
      LET r == buffer_refs[k]
          ds == DiagnosticsAt(r.line)
          n == KnownSize(r.name)
      IN IF r.kind = "array_access" /\ r.index_value # None /\ n # None
            /\ (r.index_value[1] < 0 \/ r.index_value[1] >= n[1])
         THEN /\ Len(ds) = 1
              /\ ds[1].severity = "ERROR"
              /\ ds[1].code = "SNIPE_ARRAY_BOUNDS"
              /\ ds[1].file = current_file
              /\ ds[1].message.name = r.name
              /\ ds[1].message.nums[1] = r.index_value[1]
              /\ ds[1].message.nums[2] = n[1]
         ELSE ds = <<>>

\* an index equal to the declared size is reported, one below it is not
C1_Witness ==
  /\ pc = "bounds_done"
  /\ Len(buffer_refs) = 2
  /\ KnownSize("arr") = Some(MaxSize)
  /\ buffer_refs[1].index_value = Some(MaxSize)
  /\ buffer_refs[2].index_value = Some(MaxSize - 1)
  /\ Len(diagnostics) = 1
  /\ diagnostics[1].line = 1

-----------------------------------------------------------------------------
(* analyzer/signature_checker.py *)

\* funcs with the first function of a name kept, whatever its file
RECURSIVE FuncsByNameFirstWins(_, _, _)
FuncsByNameFirstWins(funcs, syms, cf) ==
  IF syms = <<>> THEN funcs
  ELSE LET s == Head(syms)
       IN FuncsByNameFirstWins(IF s.kind # "function" THEN funcs
                               ELSE IF s.name = "" THEN funcs
                               ELSE IF s.name \notin DOMAIN funcs
                                    THEN (s.name :> s) @@ funcs
                                    ELSE funcs,
                               Tail(syms), cf)

\* funcs: the first function of a name, overwritten by any function of current_file
RECURSIVE FuncsByName(_, _, _)
FuncsByName(funcs, syms, cf) ==
  IF syms = <<>> THEN funcs
  ELSE LET s == Head(syms)
       IN FuncsByName(IF s.kind # "function" THEN funcs
                      ELSE IF s.name = "" THEN funcs
                      ELSE IF s.name \notin DOMAIN funcs \/ s.file_path = cf
                           THEN (s.name :> s) @@ funcs
                           ELSE funcs,
                      Tail(syms), cf)

\* expected = len(repo_def.get("params") or [])
ExpectedArgs(repo_def) == Len(repo_def.params)

ArgCountMismatchTooMany(arg_count, expected) == arg_count > expected

\* if ref.arg_count != expected
ArgCountMismatch(arg_count, expected) == arg_count # expected

DriftDiagnostic(ref, repo_def, expected, cf) ==
  Diagnostic(cf, ref.line, "WARNING", "SNIPE_SIGNATURE_DRIFT",
             Message("Function {} expects {} argument(s) but {} provided (see {}:{})",
                     ref.name, <<expected, ref.arg_count[1], repo_def.line>>,
                     <<repo_def.file_path>>))

RECURSIVE SignatureLoop(_, _, _)
SignatureLoop(refs, funcs, cf) ==
  IF refs = <<>> THEN <<>>
  ELSE LET ref == Head(refs)
           repo_def == DictGet(funcs, ref.name)
           emitted ==
             IF ref.kind # "call" \/ ref.arg_count = None THEN <<>>
             ELSE IF repo_def = None THEN <<>>
             ELSE IF ArgCountMismatch(ref.arg_count[1], ExpectedArgs(repo_def[1]))
                  THEN <<DriftDiagnostic(ref, repo_def[1], ExpectedArgs(repo_def[1]), cf)>>
                  ELSE <<>>
       IN emitted \o SignatureLoop(Tail(refs), funcs, cf)

check_function_signatures(refs, rsyms, cf) ==
  SignatureLoop(refs, FuncsByName(EmptyDict, rsyms, cf), cf)

-----------------------------------------------------------------------------
(* Inputs of the signature checker *)

MaxParams == 2

ParamNames == <<"name", "greeting", "punctuation", "times", "sep">>

Param(name, has_default) == [name |-> name, type |-> None, has_default |-> has_default]

\* params given only by name (a C function, or the dicts of test_signature_drift)
PlainFunction(n, file) ==
  Symbol("greet", "function", None, file, 1, None,
         [i \in 1..n |-> Param(ParamNames[i], None)], None)

\* the dicts of test_signature_drift_with_defaults: r parameters without a default,
\* then n - r with one
DefaultsFunction(r, n) ==
  Symbol("greet", "function", None, File("utils", ".py"), 1, None,
         [i \in 1..n |-> Param(ParamNames[i], Some(i > r))], Some(FALSE))

\* the dict of test_python_variadic_args: def greet(*args, **kwargs)
VariadicFunction ==
  Symbol("greet", "function", None, File("utils", ".py"), 1, None,
         <<Param("*args", Some(FALSE)), Param("**kwargs", Some(FALSE))>>, Some(TRUE))

SigRepoSymbols ==
  {PlainFunction(n, File("utils", ".py")) : n \in 1..MaxParams}
  \cup {DefaultsFunction(1, n) : n \in 2..MaxParams}
  \cup {VariadicFunction,
        PlainFunction(0, File("app", ".py")),
        Symbol("greet", "variable", Some(Str("str")), File("utils", ".py"), 3, None, <<>>, None)}

ArgCounts == 0..(MaxParams + 1)

SigRefShapes ==
  {Reference("greet", "call", None, 0, None, ac) :
     ac \in {None} \cup {Some(k) : k \in ArgCounts}}
  \cup {Reference("other", "call", None, 0, None, Some(1)),
        Reference("greet", "read", None, 0, None, None)}

SigInit ==
  /\ buffer_refs \in {Numbered(s) : s \in SeqsUpTo(SigRefShapes, MaxRefs)}
  /\ buffer_symbols = <<>>
  /\ repo_symbols \in SeqsUpTo(SigRepoSymbols, MaxRepo)
  /\ current_file = File("app", ".py")
  /\ checker_out = <<>>
  /\ diagnostics = <<>>
  /\ pc = "input"
  /\ IdleServer

RunCheckFunctionSignatures ==
  /\ pc = "input"
  /\ diagnostics' = check_function_signatures(buffer_refs, repo_symbols, current_file)
  /\ pc' = "signatures_done"
  /\ UNCHANGED <<buffer_refs, buffer_symbols, repo_symbols, current_file, checker_out>>
  /\ UNCHANGED serverVars

SigNext == RunCheckFunctionSignatures

SigSpec == SigInit /\ [][SigNext]_vars

\* the function a called name resolves to: the last one declared in current_file,
\* else the first one in repo order
FunctionsNamed(name) ==
  {j \in DOMAIN repo_symbols :
     repo_symbols[j].kind = "function" /\ repo_symbols[j].name = name}

SameFileFunctions(name) ==
  {j \in FunctionsNamed(name) : repo_symbols[j].file_path = current_file}

MinOf(S) == CHOOSE x \in S : \A y \in S : x <= y

ResolvedFunction(name) ==
  IF SameFileFunctions(name) # {} THEN Some(repo_symbols[MaxOf(SameFileFunctions(name))])
  ELSE IF FunctionsNamed(name) # {} THEN Some(repo_symbols[MinOf(FunctionsNamed(name))])
  ELSE None

HasDefaultInfo(f) == \A i \in DOMAIN f.params : f.params[i].has_default # None
RequiredParams(f) == Cardinality({i \in DOMAIN f.params : f.params[i].has_default = Some(FALSE)})
IsKnownCall(r) == r.kind = "call" /\ r.arg_count # None /\ ResolvedFunction(r.name) # None

\* C2: a call to a non-variadic function whose params carry has_default is accepted
\* for every arg_count in [params without a default, all params], and gets exactly
\* one WARNING citing that range otherwise.
C2_DefaultsRange ==
  pc = "signatures_done" =>
    \A k \in DOMAIN buffer_refs :
      LET r == buffer_refs[k]
          ds == DiagnosticsAt(r.line)
          f == ResolvedFunction(r.name)[1]
      IN (IsKnownCall(r) /\ f.is_variadic = Some(FALSE) /\ f.params # <<>>
          /\ HasDefaultInfo(f))
         => IF RequiredParams(f) <= r.arg_count[1] /\ r.arg_count[1] <= Len(f.params)
            THEN ds = <<>>
            ELSE /\ Len(ds) = 1
                 /\ ds[1].severity = "WARNING"
                 /\ SubSeq(ds[1].message.nums, 1, 2) = <<RequiredParams(f), Len(f.params)>>

\* C3: a call to a function marked variadic gets no signature diagnostic, whatever
\* its arg_count.
C3_VariadicAccepted ==
  pc = "signatures_done" =>
    \A k \in DOMAIN buffer_refs :
      LET r == buffer_refs[k]
      IN (IsKnownCall(r) /\ ResolvedFunction(r.name)[1].is_variadic = Some(TRUE))
         => DiagnosticsAt(r.line) = <<>>

\* C4: a call with arg_count k to a function whose params carry neither has_default
\* nor is_variadic gets exactly one SNIPE_SIGNATURE_DRIFT WARNING citing the number of
\* params and k iff k differs from that number; a call to a name with no function
\* symbol, a call with arg_count unset, and a reference that is no call get none.
C4_PlainDrift ==
  pc = "signatures_done" =>
    \A k \in DOMAIN buffer_refs :
      LET r == buffer_refs[k]
          ds == DiagnosticsAt(r.line)
          f == ResolvedFunction(r.name)[1]
      IN /\ ~IsKnownCall(r) => ds = <<>>
         /\ (IsKnownCall(r) /\ f.is_variadic = None
             /\ \A i \in DOMAIN f.params : f.params[i].has_default = None)
            => IF r.arg_count[1] = Len(f.params)
               THEN ds = <<>>
               ELSE /\ Len(ds) = 1
                    /\ ds[1].severity = "WARNING"
                    /\ ds[1].code = "SNIPE_SIGNATURE_DRIFT"
                    /\ ds[1].message.nums[1] = Len(f.params)
                    /\ ds[1].message.nums[2] = r.arg_count[1]

\* one call with too few and one with too many arguments for a plain function, each reported
C4_Witness ==
  /\ pc = "signatures_done"
  /\ Len(buffer_refs) = 2
  /\ repo_symbols = <<PlainFunction(MaxParams, File("utils", ".py"))>>
  /\ buffer_refs[1].arg_count = Some(MaxParams - 1)
  /\ buffer_refs[2].arg_count = Some(MaxParams + 1)
  /\ Len(diagnostics) = 2

-----------------------------------------------------------------------------
(* server.py, analyze: concatenation of the checker results and deduplication *)

\* diagnostics.extend(check_...(...)), once per checker, in pipeline order
RECURSIVE ExtendAll(_)
ExtendAll(outs) == IF outs = <<>> THEN <<>> ELSE Head(outs) \o ExtendAll(Tail(outs))

DiagnosticKeyNoMessage(d) == <<d.file, d.line, d.code>>

\* key = (d.file, d.line, d.code, d.message)
DiagnosticKey(d) == <<d.file, d.line, d.code, d.message>>

RECURSIVE DedupLoop(_, _, _)
DedupLoop(ds, seen, unique_diagnostics) ==
  IF ds = <<>> THEN unique_diagnostics
  ELSE LET d == Head(ds)
           key == DiagnosticKey(d)
       IN IF key \notin seen
          THEN DedupLoop(Tail(ds), seen \cup {key}, Append(unique_diagnostics, d))
          ELSE DedupLoop(Tail(ds), seen, unique_diagnostics)

Deduplicate(ds) == DedupLoop(ds, {}, <<>>)

-----------------------------------------------------------------------------
(* Inputs of the aggregation: what two checkers of the pipeline returned *)

MaxEmit == 2

AggMessages ==
  {Message("Index {} exceeds declared size {} for {} (declared in {}:{})",
           "arr", <<n, 2, 5>>, <<File("core", ".c")>>) : n \in {2, 3}}

AggDiagnostics ==
  {Diagnostic(File("main", ".c"), l, "ERROR", "SNIPE_ARRAY_BOUNDS", m) :
     l \in {1, 2}, m \in AggMessages}
  \cup {Diagnostic(File("main", ".c"), l, "ERROR", "SNIPE_STRUCT_ACCESS", m) :
          l \in {1}, m \in AggMessages}
  \cup {Diagnostic(File("main", ".c"), 1, "WARNING", "SNIPE_ARRAY_BOUNDS", m) : m \in AggMessages}

AggInit ==
  /\ checker_out \in [1..2 -> SeqsUpTo(AggDiagnostics, MaxEmit)]
  /\ buffer_refs = <<>>
  /\ buffer_symbols = <<>>
  /\ repo_symbols = <<>>
  /\ current_file = File("main", ".c")
  /\ diagnostics = <<>>
  /\ pc = "input"
  /\ IdleServer

RunAggregate ==
  /\ pc = "input"
  /\ diagnostics' = Deduplicate(ExtendAll(checker_out))
  /\ pc' = "aggregated"
  /\ UNCHANGED <<buffer_refs, buffer_symbols, repo_symbols, current_file, checker_out>>
  /\ UNCHANGED serverVars

AggNext == RunAggregate

AggSpec == AggInit /\ [][AggNext]_vars

\* the concatenated checker output, and the places of it that hold the first
\* occurrence of their (file, line, code, message)
Emitted == ExtendAll(checker_out)
SameKey(a, b) ==
  a.file = b.file /\ a.line = b.line /\ a.code = b.code /\ a.message = b.message
FirstOccurrences ==
  {i \in DOMAIN Emitted : \A j \in 1..(i - 1) : ~SameKey(Emitted[j], Emitted[i])}
NthFirstOccurrence(n) ==
  CHOOSE i \in FirstOccurrences : Cardinality({j \in FirstOccurrences : j <= i}) = n

\* C5: the returned list is the concatenated checker output without the non-first
\* occurrences of each (file, line, code, message): no two survivors share a key,
\* every emitted key survives, and the survivors keep their emission order.
C5_DedupFirstOccurrence ==
  pc = "aggregated" =>
    /\ \A i, j \in DOMAIN diagnostics :
         i # j => ~SameKey(diagnostics[i], diagnostics[j])
    /\ \A i \in DOMAIN Emitted :
         \E j \in DOMAIN diagnostics : SameKey(Emitted[i], diagnostics[j])
    /\ Len(diagnostics) = Cardinality(FirstOccurrences)
    /\ \A n \in DOMAIN diagnostics : diagnostics[n] = Emitted[NthFirstOccurrence(n)]

\* two checkers each emit the same (file, line, code, message) and another one:
\* one copy of each is returned
C5_Witness ==
  /\ pc = "aggregated"
  /\ Len(checker_out[1]) = 2
  /\ Len(checker_out[2]) = 2
  /\ SameKey(checker_out[1][1], checker_out[2][2])
  /\ checker_out[1][1].severity # checker_out[2][2].severity
  /\ ~SameKey(checker_out[1][2], checker_out[2][1])
  /\ ~SameKey(checker_out[1][1], checker_out[1][2])
  /\ ~SameKey(checker_out[1][1], checker_out[2][1])
  /\ Len(diagnostics) = 3
  /\ diagnostics[1] = checker_out[1][1]

-----------------------------------------------------------------------------
(* analyzer/type_checker.py *)

\* Python truth value of an Optional[str]
Truthy(opt) == opt # None /\ opt[1] # EmptyStr

\* a or b, on Optional[str]
OrElse(a, b) == IF Truthy(a) THEN a ELSE b

\* str.strip(): leading and trailing blanks removed
RECURSIVE LStrip(_)
LStrip(str) == IF str # <<>> /\ Head(str) = " " THEN LStrip(Tail(str)) ELSE str
RECURSIVE RStrip(_)
RStrip(str) ==
  IF str # <<>> /\ str[Len(str)] = " " THEN RStrip(SubSeq(str, 1, Len(str) - 1)) ELSE str
Strip(str) == RStrip(LStrip(str))

\* local_types = {s.name: s.type for s in buffer_symbols if s.type is not None}
RECURSIVE LocalExplicitTypes(_, _)
LocalExplicitTypes(local_types, syms) ==
  IF syms = <<>> THEN local_types
  ELSE LET s == Head(syms)
       IN LocalExplicitTypes(IF s.type # None THEN (s.name :> s.type[1]) @@ local_types
                             ELSE local_types,
                             Tail(syms))

\* local_types.update((s.name, s.kind) for s in buffer_symbols if s.name not in local_types)
RECURSIVE LocalKindTypes(_, _)
LocalKindTypes(local_types, syms) ==
  IF syms = <<>> THEN local_types
  ELSE LET s == Head(syms)
       IN LocalKindTypes(IF s.name \notin DOMAIN local_types
                         THEN (s.name :> Str(s.kind)) @@ local_types
                         ELSE local_types,
                         Tail(syms))

\* repo_by_name with every later definition of a name replacing the earlier one
RECURSIVE RepoByNameLastWins(_, _, _)
RepoByNameLastWins(repo_by_name, syms, cf) ==
  IF syms = <<>> THEN repo_by_name
  ELSE LET s == Head(syms)
       IN RepoByNameLastWins(IF s.file_path = cf THEN repo_by_name
                             ELSE IF s.name # "" THEN (s.name :> s) @@ repo_by_name
                             ELSE repo_by_name,
                             Tail(syms), cf)

\* repo_by_name: first symbol of a name whose file_path is not current_file
RECURSIVE RepoByName(_, _, _)
RepoByName(repo_by_name, syms, cf) ==
  IF syms = <<>> THEN repo_by_name
  ELSE LET s == Head(syms)
       IN RepoByName(IF s.file_path = cf THEN repo_by_name
                     ELSE IF s.name # "" /\ s.name \notin DOMAIN repo_by_name
                          THEN (s.name :> s) @@ repo_by_name
                          ELSE repo_by_name,
                     Tail(syms), cf)

TypeDiagnostic(ref, repo_def, repo_type, ref_type, cf) ==
  Diagnostic(cf, ref.line, "WARNING", "SNIPE_TYPE_MISMATCH",
             Message("{} is declared as {} in {}:{} but used as {} here",
                     ref.name, <<repo_def.line>>,
                     <<repo_type, repo_def.file_path, ref_type>>))

RECURSIVE TypeLoop(_, _, _, _)
TypeLoop(refs, local_types, repo_by_name, cf) ==
  IF refs = <<>> THEN <<>>
  ELSE LET ref == Head(refs)
           repo_def == DictGet(repo_by_name, ref.name)
           repo_type == OrElse(OrElse(repo_def[1].type, Some(Str(repo_def[1].kind))),
                               Some(EmptyStr))
           ref_type == OrElse(ref.inferred_type, DictGet(local_types, ref.name))
           emitted ==
             IF ref.kind \notin {"read", "array_access"} THEN <<>>
             ELSE IF repo_def = None THEN <<>>
             ELSE IF Truthy(ref_type) /\ Truthy(repo_type)
                     /\ Strip(ref_type[1]) # Strip(repo_type[1])
                  THEN <<TypeDiagnostic(ref, repo_def[1], repo_type[1], ref_type[1], cf)>>
                  ELSE <<>>
       IN emitted \o TypeLoop(Tail(refs), local_types, repo_by_name, cf)

check_type_mismatch(refs, bsyms, rsyms, cf) ==
  TypeLoop(refs, LocalKindTypes(LocalExplicitTypes(EmptyDict, bsyms), bsyms),
           RepoByName(EmptyDict, rsyms, cf), cf)

-----------------------------------------------------------------------------
(* analyzer/safety_checker.py *)

\* the dict of dangerous functions and their remediation texts
UNSAFE_FUNCTIONS ==
  [name \in {"strcpy", "strcat", "sprintf", "gets", "scanf", "vsprintf", "tmpnam"} |->
     CASE name = "strcpy" -> "Use strncpy() or strlcpy() instead"
       [] name = "strcat" -> "Use strncat() or strlcat() instead"
       [] name = "sprintf" -> "Use snprintf() instead"
       [] name = "gets" -> "Use fgets() instead"
       [] name = "scanf" -> "Use fgets() + sscanf() or limit field width (e.g. %99s)"
       [] name = "vsprintf" -> "Use vsnprintf() instead"
       [] name = "tmpnam" -> "Use mkstemp() instead"]

\* current_file.endswith((".c", ".h"))
EndsWithCOrH(str) == str # <<>> /\ str[Len(str)] \in {".c", ".h"}

UnsafeDiagnostic(ref, cf) ==
  Diagnostic(cf, ref.line, "WARNING", "SNIPE_UNSAFE_FUNCTION",
             Message("{} is unsafe and can cause buffer overflows. {}.",
                     ref.name, <<>>, <<Str(UNSAFE_FUNCTIONS[ref.name])>>))

RECURSIVE UnsafeLoop(_, _)
UnsafeLoop(refs, cf) ==
  IF refs = <<>> THEN <<>>
  ELSE LET ref == Head(refs)
           emitted ==
             IF ref.kind # "call" THEN <<>>
             ELSE IF DictGet(UNSAFE_FUNCTIONS, ref.name) # None
                  THEN <<UnsafeDiagnostic(ref, cf)>>
             ELSE <<>>
       IN emitted \o UnsafeLoop(Tail(refs), cf)

check_unsafe_functions(refs, bsyms, rsyms, cf) ==
  IF ~EndsWithCOrH(cf) THEN <<>> ELSE UnsafeLoop(refs, cf)

-----------------------------------------------------------------------------
(* graph/repo_graph.py *)

NodeId(s) == <<s.file_path, s.line, s.name>>

\* first loop: one node per id, in first-seen order
RECURSIVE GraphNodes(_, _)
GraphNodes(syms, nodes) ==
  IF syms = <<>> THEN nodes
  ELSE LET s == Head(syms)
       IN GraphNodes(Tail(syms),
                     IF \E i \in DOMAIN nodes : nodes[i].id = NodeId(s) THEN nodes
                     ELSE Append(nodes, [id |-> NodeId(s), label |-> s.name, kind |-> s.kind,
                                         type |-> s.type, file_path |-> s.file_path,
                                         line |-> s.line]))

\* name_to_ids: the labels in first-seen order
RECURSIVE LabelOrder(_, _)
LabelOrder(nodes, seen) ==
  IF nodes = <<>> THEN seen
  ELSE LabelOrder(Tail(nodes),
                  IF \E i \in DOMAIN seen : seen[i] = Head(nodes).label THEN seen
                  ELSE Append(seen, Head(nodes).label))

\* lines 51-53: an edge from each id of a label to every later id of the label
RECURSIVE PairEdges(_)
PairEdges(nids) ==
  IF Len(nids) < 2 THEN <<>>
  ELSE [k \in 1..(Len(nids) - 1) |->
          [source |-> nids[1], target |-> nids[k + 1], type |-> "REFERENCES"]]
       \o PairEdges(Tail(nids))

\* lines 44-53: the edges label by label
RECURSIVE LabelEdges(_, _)
LabelEdges(labels, nodes) ==
  IF labels = <<>> THEN <<>>
  ELSE LET group == SelectSeq(nodes, LAMBDA n : n.label = Head(labels))
       IN PairEdges([i \in DOMAIN group |-> group[i].id]) \o LabelEdges(Tail(labels), nodes)

GraphEdges(nodes) == LabelEdges(LabelOrder(nodes, <<>>), nodes)

build_repo_graph(syms) ==
  LET nodes == GraphNodes(syms, <<>>)
  IN [nodes |-> nodes, edges |-> GraphEdges(nodes)]

-----------------------------------------------------------------------------
(* pathlib on a POSIX host, as server.py uses it *)

IsAbsolute(str) == str # <<>> /\ Head(str) = "/"

\* the components between "/" separators; empty and "." components are dropped
RECURSIVE SplitPath(_, _, _)
SplitPath(str, cur, acc) ==
  LET flushed == IF cur = <<>> \/ cur = <<".">> THEN acc ELSE Append(acc, cur)
  IN IF str = <<>> THEN flushed
     ELSE IF Head(str) = "/" THEN SplitPath(Tail(str), <<>>, flushed)
     ELSE SplitPath(Tail(str), Append(cur, Head(str)), acc)

PathComponents(str) == SplitPath(str, <<>>, <<>>)

RECURSIVE JoinComponents(_)
JoinComponents(comps) ==
  IF comps = <<>> THEN <<>>
  ELSE IF Len(comps) = 1 THEN comps[1]
  ELSE comps[1] \o <<"/">> \o JoinComponents(Tail(comps))

\* str(Path(p).resolve()); the working directory of the server is "/"
Resolve(str) == <<"/">> \o JoinComponents(PathComponents(str))

IsPrefix(a, b) == Len(a) <= Len(b) /\ SubSeq(b, 1, Len(a)) = a

\* str(Path(p).relative_to(Path(root))), None for the ValueError
RelativeTo(str, root) ==
  LET pc_ == PathComponents(str)
      rc == PathComponents(root)
  IN IF IsAbsolute(str) = IsAbsolute(root) /\ IsPrefix(rc, pc_)
     THEN Some(IF Len(pc_) = Len(rc) THEN <<".">>
               ELSE JoinComponents(SubSeq(pc_, Len(rc) + 1, Len(pc_))))
     ELSE None

\* str.replace("\\", "/")
ReplaceBackslash(str) == [i \in DOMAIN str |-> IF str[i] = "\\" THEN "/" ELSE str[i]]

\* Path(file_path).suffix.lower()
LowerSuffix(str) ==
  IF str = <<>> THEN ""
  ELSE LET a == str[Len(str)]
       IN IF a \in {".c", ".C"} THEN ".c"
          ELSE IF a \in {".h", ".H"} THEN ".h"
          ELSE IF a \in {".py", ".PY"} THEN ".py"
          ELSE IF a \in {".txt"} THEN ".txt"
          ELSE ""

-----------------------------------------------------------------------------
(* parser/symbol_extractor.py.  A source text is kept as what the grammar of its   *)
(* language finds in it: the definition and declaration nodes of its syntax tree   *)
(* in walk order, and its use sites.                                               *)

SourceText(lang, decls, refs) == [lang |-> lang, decls |-> decls, refs |-> refs]

\* a child of a parameter list: its node type, the name it declares, its C type
ParamNode(form, name, type) == [form |-> form, name |-> name, type |-> type]

\* a definition or declaration node: its node type, the identifier it declares,
\* get_type_str, the line it starts on, the literal size of its array declarator,
\* its parameter list, and the size in the first "name[digits]" on that line
Node(node, name, type, line, array_size, params, subscript) ==
  [node |-> node, name |-> name, type |-> type, line |-> line,
   array_size |-> array_size, params |-> params, subscript |-> subscript]

AllGrammars == {"python", "c"}

\* a parser handed out without looking for the grammar
_get_parser_unchecked(lang_name) == Some(lang_name)

\* None when tree_sitter or the language package is missing, and for any other name
_get_parser(lang_name) == IF lang_name \in grammars THEN Some(lang_name) ELSE None

\* name.startswith("_")
UnderscoreNames == {"_cache"}

\* lines 126-129: the identifier children of the parameter list, self left out
RECURSIVE PyParams(_)
PyParams(parameters) ==
  IF parameters = <<>> THEN <<>>
  ELSE (IF Head(parameters).form = "identifier" /\ Head(parameters).name # "self"
        THEN <<[name |-> Head(parameters).name, type |-> None, has_default |-> None]>>
        ELSE <<>>)
       \o PyParams(Tail(parameters))

\* lines 119-169, walk
RECURSIVE PyWalk(_, _)
PyWalk(nodes, file_path) ==
  IF nodes = <<>> THEN <<>>
  ELSE LET n == Head(nodes)
           found ==
             IF n.node = "function_definition"
             THEN <<Symbol(n.name, "function", None, file_path, n.line, None,
                           PyParams(n.params), None)>>
             ELSE IF n.node = "class_definition"
             THEN <<Symbol(n.name, "class", None, file_path, n.line, None, <<>>, None)>>
             ELSE IF n.node = "assignment" /\ n.name \notin UnderscoreNames
             THEN <<Symbol(n.name, "variable", None, file_path, n.line, None, <<>>, None)>>
             ELSE <<>>
       IN found \o PyWalk(Tail(nodes), file_path)

\* the nodes of a text of another language are not nodes of this grammar
_extract_python_symbols(source, file_path) ==
  IF _get_parser("python") = None THEN <<>>
  ELSE IF source.lang # "python" THEN <<>>
  ELSE PyWalk(source.decls, file_path)

\* lines 236-241: the parameter_declaration children whose declarator is an identifier
RECURSIVE CParams(_)
CParams(parameters) ==
  IF parameters = <<>> THEN <<>>
  ELSE (IF Head(parameters).form = "identifier"
        THEN <<[name |-> Head(parameters).name, type |-> Head(parameters).type,
                has_default |-> None]>>
        ELSE <<>>)
       \o CParams(Tail(parameters))

\* lines 227-283, walk: the Symbol a node yields
CSymbolOf(n, file_path) ==
  IF n.node = "function_definition"
  THEN <<Symbol(n.name, "function", n.type, file_path, n.line, None, CParams(n.params), None)>>
  ELSE IF n.node = "declaration"
  THEN <<Symbol(n.name, IF n.array_size # None THEN "array" ELSE "variable", n.type,
                file_path, n.line, n.array_size, <<>>, None)>>
  ELSE IF n.node = "struct_specifier"
  THEN <<Symbol(n.name, "struct", Some(Str("struct")), file_path, n.line, None, <<>>, None)>>
  ELSE <<>>

\* lines 287-303: array_size and kind set from the symbol's source line
SourceLinePass(s, subscript) ==
  IF s.array_size # None THEN s
  ELSE IF subscript = None THEN s
  ELSE [s EXCEPT !.array_size = subscript, !.kind = "array"]

RECURSIVE CWalk(_, _)
CWalk(nodes, file_path) ==
  IF nodes = <<>> THEN <<>>
  ELSE LET n == Head(nodes)
           found == CSymbolOf(n, file_path)
       IN [i \in DOMAIN found |-> SourceLinePass(found[i], n.subscript)]
          \o CWalk(Tail(nodes), file_path)

_extract_c_symbols(source, file_path) ==
  IF _get_parser("c") = None THEN <<>>
  ELSE IF source.lang # "c" THEN <<>>
  ELSE CWalk(source.decls, file_path)

\* lines 308-315: the language given, else the one of the extension
LanguageOf(file_path, language) ==
  IF language # None THEN language
  ELSE IF LowerSuffix(file_path) = ".py" THEN Some("python")
  ELSE IF LowerSuffix(file_path) \in {".c", ".h"} THEN Some("c")
  ELSE None

extract_symbols_from_source(source, file_path, language) ==
  LET lang == LanguageOf(file_path, language)
  IN IF lang = None THEN <<>>
     ELSE IF lang[1] = "python" THEN _extract_python_symbols(source, file_path)
     ELSE IF lang[1] = "c" THEN _extract_c_symbols(source, file_path)
     ELSE <<>>

\* insertion of a reference before the first one of a later line
RECURSIVE InsertByLine(_, _)
InsertByLine(sorted, ref) ==
  IF sorted = <<>> THEN <<ref>>
  ELSE IF Head(sorted).line > ref.line THEN <<ref>> \o sorted
  ELSE <<Head(sorted)>> \o InsertByLine(Tail(sorted), ref)

RECURSIVE InTextOrder(_, _)
InTextOrder(refs, sorted) ==
  IF refs = <<>> THEN sorted ELSE InTextOrder(Tail(refs), InsertByLine(sorted, Head(refs)))

\* lines 394-407: one array_access Reference per "identifier[digits]" of the text,
\* in text order, whether the grammar has a declarator or a subscript at that place
RegexFallback(source) ==
  LET sized == SelectSeq(source.decls, LAMBDA n : n.subscript # None)
      used == SelectSeq(source.refs,
                        LAMBDA r : /\ r.kind = "array_access"
                                   /\ r.index_value # None
                                   /\ r.index_value[1] >= 0)
  IN InTextOrder([i \in DOMAIN sized |->
                    Reference(sized[i].name, "array_access", None, sized[i].line,
                              sized[i].subscript, None)]
                 \o [i \in DOMAIN used |->
                       Reference(used[i].name, "array_access", None, used[i].line,
                                 used[i].index_value, None)],
                 <<>>)

\* lines 341-390, walk: the use sites the grammar of the language finds; an
\* array_declarator node yields nothing (367-368)
WalkReferences(source, lang_name) ==
  IF lang_name = source.lang THEN source.refs ELSE <<>>

extract_references_from_source(source, file_path, language) ==
  LET lang == LanguageOf(file_path, language)
  IN IF lang = None THEN <<>>
     ELSE IF _get_parser(lang[1]) = None THEN <<>>
     ELSE WalkReferences(source, lang[1])
          \o (IF lang[1] = "c" THEN RegexFallback(source) ELSE <<>>)

\* parser/buffer_parser.py
parse_unsaved_buffer(content, file_path, language) ==
  [symbols |-> extract_symbols_from_source(content, file_path, language),
   refs |-> extract_references_from_source(content, file_path, language)]

-----------------------------------------------------------------------------
(* The repositories on disk *)

MaxTime == 2

R1 == <<"/", "r1">>
R2 == <<"/", "r2">>
R3 == <<"/", "r3">>
R1Slash == <<"/", "r1", "/">>
NoDir == <<"/", "nodir">>
Roots == {R1, R2}
RequestRoots == {R1, R2, R1Slash, NoDir}

LibFile == <<"sub", "/", "lib", ".c">>
LibFileBackslash == <<"sub", "\\", "lib", ".c">>
CoreFile == File("core", ".c")
NewFile == File("new", ".c")
MainFile == File("main", ".c")
AcctFile == File("acct", ".c")
BankFile == File("bank", ".c")
AppFile == <<"app", "/", "main", ".c">>
AppFileBackslash == <<"app", "\\", "main", ".c">>

\* the node of a C definition or declaration of the given kind
Decl(name, kind, type, line, array_size, params) ==
  Node(IF kind = "function" THEN "function_definition"
       ELSE IF kind = "struct" THEN "struct_specifier" ELSE "declaration",
       name, type, line, array_size, params, array_size)

\* /r1 holds sub/lib.c, whose declaration of balance moves with every save, and
\* core.c; /r2 holds one file without declarations; /r3 holds acct.c and bank.c,
\* which both declare balance and add, and app/main.c.
DiskFiles(root) ==
  IF root = R1 THEN <<LibFile, CoreFile>>
  ELSE IF root = R3 THEN <<AcctFile, BankFile, AppFile>>
  ELSE <<File("notes", ".py")>>

\* acct.c: "int balance;" and "int add(int a) {...}"
AcctSource ==
  SourceText("c",
    <<Decl("balance", "variable", Some(Str("int")), 1, None, <<>>),
      Decl("add", "function", Some(Str("int")), 2, None,
           <<ParamNode("identifier", "a", Some(Str("int")))>>)>>,
    <<>>)

\* bank.c: "long balance;" and "long add(long a, long b) {...}"
BankSource ==
  SourceText("c",
    <<Decl("balance", "variable", Some(Str("long")), 1, None, <<>>),
      Decl("add", "function", Some(Str("long")), 2, None,
           <<ParamNode("identifier", "a", Some(Str("long"))),
             ParamNode("identifier", "b", Some(Str("long")))>>)>>,
    <<>>)

\* app/main.c as saved: "int total;", "float balance;", a read of each and a call
\* of add with one argument
AppSource ==
  SourceText("c",
    <<Decl("total", "variable", Some(Str("int")), 1, None, <<>>),
      Decl("balance", "variable", Some(Str("float")), 2, None, <<>>)>>,
    <<Reference("total", "read", None, 4, None, None),
      Reference("balance", "read", None, 5, None, None),
      Reference("add", "call", None, 6, None, Some(1))>>)

DiskSource(root, file, mt) ==
  IF root = R3 /\ file = AcctFile THEN AcctSource
  ELSE IF root = R3 /\ file = BankFile THEN BankSource
  ELSE IF root = R3 /\ file = AppFile THEN AppSource
  ELSE IF root = R1 /\ file = LibFile
  THEN SourceText("c", <<Decl("balance", "variable", Some(Str("int")), mt, None, <<>>)>>, <<>>)
  ELSE IF root = R1 /\ file = CoreFile
  THEN SourceText("c",
         <<Decl("arr", "array", Some(Str("int")), 5, Some(2), <<>>),
           Decl("add", "function", Some(Str("int")), 7, None,
                <<ParamNode("identifier", "a", Some(Str("int"))),
                  ParamNode("identifier", "b", Some(Str("int")))>>)>>,
         <<>>)
  ELSE SourceText("python", <<>>, <<>>)

\* Path(repo_path).is_dir(): the directories are the roots the file system holds
IsDir(repo_path) == Resolve(repo_path) \in DOMAIN fs_mtime

\* parser/repo_parser.py: every recognized file of the root, in walk order, through
\* extract_symbols_from_source, keyed by its root-relative path
RECURSIVE BuildFiles(_, _, _)
BuildFiles(root, files, mt) ==
  IF files = <<>> THEN <<>>
  ELSE extract_symbols_from_source(DiskSource(root, Head(files), mt), Head(files), None)
       \o BuildFiles(root, Tail(files), mt)

build_repo_symbol_table(repo_path) ==
  IF IsDir(repo_path)
  THEN BuildFiles(Resolve(repo_path), DiskFiles(Resolve(repo_path)), fs_mtime[Resolve(repo_path)])
  ELSE <<>>

-----------------------------------------------------------------------------
(* server.py: the index *)

\* os.walk of a path that is no directory yields nothing
_max_repo_mtime(repo_path) ==
  IF IsDir(repo_path) THEN fs_mtime[Resolve(repo_path)] ELSE 0

BuiltFrom(repo_path) ==
  Some([root |-> Resolve(repo_path), mtime |-> _max_repo_mtime(repo_path)])

\* needs_rebuild = force or _repo_path != repo_path or not _repo_symbols
\*                 or current_mtime > _repo_mtime
NeedsRebuild(repo_path, force) ==
  \/ force
  \/ _repo_path # Some(repo_path)
  \/ _repo_symbols = <<>>
  \/ _max_repo_mtime(repo_path) > _repo_mtime

_ensure_repo_symbols(repo_path, force) ==
  IF NeedsRebuild(repo_path, force)
  THEN [symbols |-> build_repo_symbol_table(repo_path), path |-> Some(repo_path),
        mtime |-> _max_repo_mtime(repo_path), built |-> TRUE,
        from |-> BuiltFrom(repo_path)]
  ELSE [symbols |-> _repo_symbols, path |-> _repo_path, mtime |-> _repo_mtime,
        built |-> FALSE, from |-> built_from]

refresh_if_stale(repo_path) == _ensure_repo_symbols(repo_path, FALSE)

\* refresh, lines 200-203: the Builder runs, _repo_symbols and _repo_path are
\* assigned, _repo_mtime is not
refresh_rebuild(repo_path) ==
  [symbols |-> build_repo_symbol_table(repo_path), path |-> Some(repo_path),
   mtime |-> _repo_mtime, built |-> TRUE, from |-> BuiltFrom(repo_path)]

-----------------------------------------------------------------------------
(* server.py, analyze: the overlay of open buffers *)

OpenBuffer(file_path, content) == [file_path |-> file_path, content |-> content]

OverlayPathAsGiven(file_path, repo_path) ==
  LET rel == RelativeTo(file_path, repo_path)
  IN IF rel = None THEN file_path ELSE rel[1]

\* lines 148-153: relative to the root when under it, then "/" for "\"
OverlayPath(file_path, repo_path) ==
  LET rel == RelativeTo(file_path, repo_path)
  IN ReplaceBackslash(IF rel = None THEN file_path ELSE rel[1])

\* lines 145-158
RECURSIVE OverlayScan(_, _, _, _)
OverlayScan(open_buffers, repo_path, overlay_files, overlay_symbols) ==
  IF open_buffers = <<>> THEN [files |-> overlay_files, symbols |-> overlay_symbols]
  ELSE LET ob == Head(open_buffers)
           rel == OverlayPath(ob.file_path, repo_path)
           syms == extract_symbols_from_source(ob.content, rel, None)
       IN OverlayScan(Tail(open_buffers), repo_path, overlay_files \cup {rel},
                      overlay_symbols \o [i \in DOMAIN syms |-> [syms[i] EXCEPT !.file_path = rel]])

\* line 160
WithoutOverlaid(repo_dicts, overlay_files) ==
  SelectSeq(repo_dicts, LAMBDA d : ReplaceBackslash(d.file_path) \notin overlay_files)

\* the same overlay written into the list it was given
WorkingSetInPlace(index_list, open_buffers, repo_path) ==
  LET scan == OverlayScan(open_buffers, repo_path, {}, <<>>)
      merged == IF open_buffers = <<>> THEN index_list
                ELSE WithoutOverlaid(index_list, scan.files) \o scan.symbols
  IN [index |-> merged, repo_dicts |-> merged]

\* lines 138-161: repo_dicts is a new list (138), rebound to another new list (160)
\* and extended (161); the list _repo_symbols names is read only.  Returns the two
\* list objects as they are when the checkers run.
WorkingSet(index_list, open_buffers, repo_path) ==
  LET scan == OverlayScan(open_buffers, repo_path, {}, <<>>)
  IN [index |-> index_list,
      repo_dicts |-> IF open_buffers = <<>> THEN index_list
                     ELSE WithoutOverlaid(index_list, scan.files) \o scan.symbols]

\* the checkers of src/backend/analyzer in pipeline order (lines 162-175)
Pipeline(refs, bsyms, repo_dicts, cf) ==
  <<check_type_mismatch(refs, bsyms, repo_dicts, cf),
    check_array_bounds(refs, bsyms, repo_dicts, cf),
    check_function_signatures(refs, repo_dicts, cf),
    check_unsafe_functions(refs, bsyms, repo_dicts, cf)>>

-----------------------------------------------------------------------------
(* server.py: the request handlers *)

\* the buffer being edited: it declares balance as float and uses the repository
MainSource ==
  SourceText("c",
    <<Decl("balance", "variable", Some(Str("float")), 1, None, <<>>)>>,
    <<Reference("balance", "read", None, 3, None, None),
      Reference("arr", "array_access", None, 4, Some(2), None),
      Reference("add", "call", None, 5, None, Some(3)),
      Reference("strcpy", "call", None, 6, None, Some(2))>>)

\* unsaved content of sub/lib.c and of a file the index does not know
LiveLib ==
  SourceText("c", <<Decl("balance", "variable", Some(Str("float")), 9, None, <<>>),
                    Decl("arr", "array", Some(Str("int")), 10, Some(4), <<>>)>>, <<>>)
LiveNew ==
  SourceText("c", <<Decl("extra", "variable", Some(Str("int")), 1, None, <<>>)>>, <<>>)

\* sub/lib.c named as an absolute path under the root or relative to it, with "/"
\* or "\" below the root
LibPaths ==
  {R1 \o <<"/">> \o LibFile, R1 \o <<"/">> \o LibFileBackslash, LibFile, LibFileBackslash}

OpenBufferChoices ==
  {<<>>}
  \cup {<<OpenBuffer(p, LiveLib)>> : p \in LibPaths}
  \cup {<<OpenBuffer(NewFile, LiveNew)>>,
        <<OpenBuffer(NewFile, LiveNew), OpenBuffer(LibFile, LiveLib)>>}

\* what the last request was and what its handler did; graph_nodes and symbol_count
\* are the sizes of the bodies of GET /graph and POST /refresh
Response(op, raw, status, ens, cache, obs, count, path, nodes) ==
  [op |-> op, raw |-> raw, status |-> status, built |-> ens.built,
   returned |-> ens.symbols, cache_before |-> cache,
   open_buffers |-> obs, symbol_count |-> count, repo_path |-> path,
   graph_nodes |-> nodes]

NotRun == [built |-> FALSE, symbols |-> <<>>]

\* how the last Builder run stands to a directory when a request for it arrives:
\* "fresh" when it was for this directory and none of its files changed since,
\* "stale" when it was for this directory and a file changed since, else "none"
CacheFor(repo_path) ==
  IF built_from = None \/ built_from[1].root # Resolve(repo_path) THEN "none"
  ELSE IF _max_repo_mtime(repo_path) > built_from[1].mtime THEN "stale"
  ELSE "fresh"

\* the locals of analyze do not outlive the request
NoAnalysis ==
  /\ buffer_refs' = <<>>
  /\ buffer_symbols' = <<>>
  /\ repo_symbols' = <<>>
  /\ current_file' = EmptyStr
  /\ checker_out' = <<>>
  /\ diagnostics' = <<>>

\* the rejection of a handler that has already recorded the requested root
RejectedAfterRecordingRoot(op, raw, obs) ==
  /\ last' = Response(op, raw, 400, NotRun, CacheFor(raw), obs, 0, EmptyStr, 0)
  /\ pc' = "rejected"
  /\ NoAnalysis
  /\ _repo_path' = Some(Resolve(raw))
  /\ UNCHANGED <<_repo_symbols, _repo_mtime, fs_mtime, built_from, grammars>>

\* raise HTTPException(status_code=400, ...)
Rejected(op, raw, obs) ==
  /\ last' = Response(op, raw, 400, NotRun, CacheFor(raw), obs, 0, EmptyStr, 0)
  /\ pc' = "rejected"
  /\ NoAnalysis
  /\ UNCHANGED <<_repo_symbols, _repo_path, _repo_mtime, fs_mtime, built_from, grammars>>

\* POST /analyze, lines 129-189: current_file is request.file_path as it came
AnalyzeFile(raw, content, file_path, open_buffers) ==
  \E repo_path \in {Resolve(raw)} :
    IF ~IsDir(repo_path) THEN Rejected("analyze", raw, open_buffers)
    ELSE \E ens \in {_ensure_repo_symbols(repo_path, FALSE)},
            parsed \in {parse_unsaved_buffer(content, file_path, None)} :
         \E ws \in {WorkingSet(ens.symbols, open_buffers, repo_path)} :
         \E outs \in {Pipeline(parsed.refs, parsed.symbols, ws.repo_dicts, file_path)} :
           /\ _repo_symbols' = ws.index
           /\ _repo_path' = ens.path
           /\ _repo_mtime' = ens.mtime
           /\ built_from' = ens.from
           /\ buffer_refs' = parsed.refs
           /\ buffer_symbols' = parsed.symbols
           /\ repo_symbols' = ws.repo_dicts
           /\ current_file' = file_path
           /\ checker_out' = outs
           /\ diagnostics' = Deduplicate(ExtendAll(outs))
           /\ pc' = "analyzed"
           /\ last' = Response("analyze", raw, 200, ens, CacheFor(repo_path),
                               open_buffers, 0, EmptyStr, 0)
           /\ UNCHANGED <<fs_mtime, grammars>>

\* the editor analyses main.c, a file outside the index
Analyze(raw, open_buffers) == AnalyzeFile(raw, MainSource, MainFile, open_buffers)

\* POST /refresh
Refresh(raw) ==
  \E repo_path \in {Resolve(raw)} :
    IF ~IsDir(repo_path) THEN Rejected("refresh", raw, <<>>)
    ELSE \E ens \in {refresh_rebuild(repo_path)} :
           /\ _repo_symbols' = ens.symbols
           /\ _repo_path' = ens.path
           /\ _repo_mtime' = ens.mtime
           /\ built_from' = ens.from
           /\ pc' = "refreshed"
           /\ last' = Response("refresh", raw, 200, ens, CacheFor(repo_path),
                               <<>>, Len(ens.symbols), repo_path, 0)
           /\ NoAnalysis
           /\ UNCHANGED <<fs_mtime, grammars>>

\* GET /symbols and GET /graph: repo_path goes to _ensure_repo_symbols as given
Query(op, raw) ==
  IF raw = EmptyStr THEN Rejected(op, raw, <<>>)
  ELSE \E ens \in {_ensure_repo_symbols(raw, FALSE)} :
         /\ _repo_symbols' = ens.symbols
         /\ _repo_path' = ens.path
         /\ _repo_mtime' = ens.mtime
         /\ built_from' = ens.from
         /\ pc' = "queried"
         /\ last' = Response(op, raw, 200, ens, CacheFor(raw), <<>>, 0, EmptyStr,
                             IF op = "graph" THEN Len(build_repo_graph(ens.symbols).nodes)
                             ELSE 0)
         /\ NoAnalysis
         /\ UNCHANGED <<fs_mtime, grammars>>

get_symbols(raw) == Query("symbols", raw)
get_graph(raw) == Query("graph", raw)

\* another program saves a recognized file of the root
Touch(root) ==
  /\ fs_mtime[root] < MaxTime
  /\ \E t \in (fs_mtime[root] + 1)..MaxTime : fs_mtime' = [fs_mtime EXCEPT ![root] = t]
  /\ pc' = "touched"
  /\ last' = Response("touch", root, 200, NotRun, "none", <<>>, 0, EmptyStr, 0)
  /\ NoAnalysis
  /\ UNCHANGED <<_repo_symbols, _repo_path, _repo_mtime, built_from, grammars>>

\* the analyze requests: every root without open buffers, /r1 with each overlay,
\* and /r2 with a buffer of a file outside it
AnalyzeRequests ==
  {<<raw, <<>>>> : raw \in RequestRoots}
  \cup {<<R1, obs>> : obs \in OpenBufferChoices}
  \cup {<<R2, <<OpenBuffer(R1 \o <<"/">> \o LibFile, LiveLib)>>>>}

Init ==
  /\ buffer_refs = <<>>
  /\ buffer_symbols = <<>>
  /\ repo_symbols = <<>>
  /\ current_file = EmptyStr
  /\ checker_out = <<>>
  /\ diagnostics = <<>>
  /\ pc = "started"
  /\ _repo_symbols = <<>>
  /\ _repo_path = None
  /\ _repo_mtime = 0
  /\ fs_mtime = [r \in Roots |-> 1]
  /\ built_from = None
  /\ last = Response("none", EmptyStr, 200, NotRun, "none", <<>>, 0, EmptyStr, 0)
  /\ grammars = AllGrammars

Next ==
  \/ \E req \in AnalyzeRequests : Analyze(req[1], req[2])
  \/ \E raw \in RequestRoots : Refresh(raw)
  \/ \E raw \in RequestRoots \cup {EmptyStr} : get_symbols(raw)
  \/ \E raw \in RequestRoots \cup {EmptyStr} : get_graph(raw)
  \/ \E root \in Roots : Touch(root)

Spec == Init /\ [][Next]_vars

-----------------------------------------------------------------------------
(* Properties of the request handlers *)

\* a path names file F of the root: F itself or F below the root, either separator
Denotes(path, root, F) ==
  LET q == [i \in DOMAIN path |-> IF path[i] = "\\" THEN "/" ELSE path[i]]
  IN q = F \/ q = root \o <<"/">> \o F

\* the declarations of the open buffers that name F, as symbols of F, in request order
RECURSIVE FreshSymbols(_, _, _)
FreshSymbols(obs, root, F) ==
  IF obs = <<>> THEN <<>>
  ELSE (IF Denotes(Head(obs).file_path, root, F)
        THEN extract_symbols_from_source(Head(obs).content, F, None)
        ELSE <<>>)
       \o FreshSymbols(Tail(obs), root, F)

IndexedFiles == {last.returned[i].file_path : i \in DOMAIN last.returned}

\* C6: when the index holds symbols of a file F and an open buffer supplies content
\* for F (absolute under the root or root-relative, either separator), the list the
\* checkers get holds, for F, exactly the symbols extracted from the supplied
\* content and none of the index's.
C6_OverlayPrecedence ==
  pc = "analyzed" =>
    \A F \in IndexedFiles :
      (\E i \in DOMAIN last.open_buffers :
         Denotes(last.open_buffers[i].file_path, Resolve(last.raw), F))
      => /\ SelectSeq(repo_symbols, LAMBDA d : d.file_path = F)
              = FreshSymbols(last.open_buffers, Resolve(last.raw), F)
         /\ \A i \in DOMAIN last.returned, j \in DOMAIN repo_symbols :
              last.returned[i].file_path = F => repo_symbols[j] # last.returned[i]

\* sub/lib.c is indexed and supplied as /r1/sub\lib.c: the checkers see the live
\* declaration of balance and core.c's symbols
C6_Witness ==
  /\ pc = "analyzed"
  /\ last.raw = R1
  /\ last.open_buffers = <<OpenBuffer(R1 \o <<"/">> \o LibFileBackslash, LiveLib)>>
  /\ LibFile \in IndexedFiles
  /\ \E j \in DOMAIN repo_symbols :
       /\ repo_symbols[j].name = "balance"
       /\ repo_symbols[j].type = Some(Str("float"))
       /\ repo_symbols[j].file_path = LibFile
  /\ \E j \in DOMAIN repo_symbols : repo_symbols[j].file_path = CoreFile

\* the declarations only open buffers hold
LiveDecls ==
  LET live(src) == extract_symbols_from_source(src, EmptyStr, Some("c"))
  IN {live(LiveLib)[i] : i \in DOMAIN live(LiveLib)}
     \cup {live(LiveNew)[i] : i \in DOMAIN live(LiveNew)}

IsOverlaySymbol(d) == [d EXCEPT !.file_path = EmptyStr] \in LiveDecls

\* C7: an analyze with open_buffers leaves _repo_symbols the sequence
\* _ensure_repo_symbols returned for it, and no request without open_buffers is
\* answered from a sequence holding an overlay symbol.
C7_IndexUntouchedByOverlay ==
  /\ (pc = "analyzed" /\ last.open_buffers # <<>>) => _repo_symbols = last.returned
  /\ \A i \in DOMAIN _repo_symbols : ~IsOverlaySymbol(_repo_symbols[i])
  /\ (last.op \in {"analyze", "symbols"} /\ last.status = 200 /\ last.open_buffers = <<>>)
     => \A i \in DOMAIN last.returned : ~IsOverlaySymbol(last.returned[i])

\* an analyze of /r1 with a live sub/lib.c served from the cache: the checkers got
\* the overlay, the index kept the two on-disk files
C7_Witness ==
  /\ pc = "analyzed"
  /\ last.open_buffers = <<OpenBuffer(LibFile, LiveLib)>>
  /\ ~last.built
  /\ \E j \in DOMAIN repo_symbols : IsOverlaySymbol(repo_symbols[j])
  /\ repo_symbols # _repo_symbols
  /\ {_repo_symbols[i].file_path : i \in DOMAIN _repo_symbols} = {LibFile, CoreFile}

\* C8: a non-forced request for a root whose last build is still fresh (no file
\* modified since) is served from the cache, without the Builder.
C8_CacheHit ==
  (last.op \in {"analyze", "symbols", "graph"} /\ last.status = 200
   /\ last.cache_before = "fresh")
  => ~last.built

\* C9: an analyze or Symbols query for a root whose cached build is older than the
\* root's files invokes the Builder and returns the rebuilt sequence.
C9_StaleRebuilt ==
  (last.op \in {"analyze", "symbols"} /\ last.status = 200
   /\ last.cache_before = "stale")
  => /\ last.built
     /\ last.returned = build_repo_symbol_table(last.raw)

\* C10: a refresh of a directory always runs the Builder; afterwards the index holds
\* the resolved root and the built sequence, and the response reports that
\* sequence's length and the resolved root.
C10_RefreshRebuilds ==
  (last.op = "refresh" /\ last.status = 200)
  => /\ last.built
     /\ last.repo_path \in Roots
     /\ last.repo_path = Resolve(last.raw)
     /\ _repo_path = Some(last.repo_path)
     /\ _repo_symbols = build_repo_symbol_table(last.repo_path)
     /\ last.returned = _repo_symbols
     /\ last.symbol_count = Len(_repo_symbols)

\* a refresh of "/r1/" arriving while the index holds a fresh build of /r1
C10_Witness ==
  /\ last.op = "refresh"
  /\ last.status = 200
  /\ last.raw = R1Slash
  /\ last.cache_before = "fresh"
  /\ last.built
  /\ last.symbol_count = 3

-----------------------------------------------------------------------------
(* Rejection of invalid roots *)

IndexState == <<_repo_symbols, _repo_path, _repo_mtime>>

\* C11: an analyze or refresh whose repo_path does not resolve to a directory is
\* answered 400 without the Builder having run, and the index (cached symbols,
\* recorded root, recorded modification time) is what it was before the request.
C11_InvalidRootRejected ==
  [][(last'.op \in {"analyze", "refresh"} /\ ~IsDir(last'.raw))
     => (last'.status = 400 /\ ~last'.built /\ IndexState' = IndexState)]_vars

\* a refresh of /nodir rejected while the index holds the build of /r1
C11_Witness ==
  /\ last.op = "refresh"
  /\ last.raw = NoDir
  /\ last.status = 400
  /\ pc = "rejected"
  /\ _repo_path = Some(R1)
  /\ Len(_repo_symbols) = 3

\* C12: a Symbols or graph query whose repo_path is no directory is answered 400
\* without the Builder having run, and the index is what it was before the request.
C12_QueryInvalidRootRejected ==
  [][(last'.op \in {"symbols", "graph"} /\ ~IsDir(last'.raw))
     => (last'.status = 400 /\ ~last'.built /\ IndexState' = IndexState)]_vars

-----------------------------------------------------------------------------
(* The language adapters on their own: one source text, one file name, one       *)
(* language argument, in a process with some of the grammars installed.          *)

\* the forms of a parameter in a Python def
PyParamForms ==
  {"identifier", "typed_parameter", "default_parameter", "typed_default_parameter",
   "list_splat_pattern", "dictionary_splat_pattern"}

\* parameter lists of up to MaxParams declared parameters, with or without self
PyParamLists ==
  LET declared == UNION {[1..k -> PyParamForms] : k \in 0..MaxParams}
      named(fs) == [i \in DOMAIN fs |-> ParamNode(fs[i], ParamNames[i], None)]
  IN {named(fs) : fs \in declared}
     \cup {<<ParamNode("identifier", "self", None)>> \o named(fs) : fs \in declared}

PyCallSite == <<Reference("greet", "call", None, 3, None, Some(1))>>

PySources ==
  {SourceText("python", <<Node("function_definition", "greet", None, 1, None, ps, None)>>,
              PyCallSite) : ps \in PyParamLists}
  \cup {SourceText("python",
                   <<Node("class_definition", "Greeter", None, 1, None, <<>>, None),
                     Node("assignment", "count", None, 2, None, <<>>, None),
                     Node("assignment", "_cache", None, 3, None, <<>>, None)>>,
                   PyCallSite)}

\* the nodes of "int buf[4] = {0};", "int buf[4];", "int buf;", of a struct with
\* and without "name[digits]" on its line, and of a function likewise
CNodeChoices ==
  {Node("declaration", "buf", Some(Str("int")), 0, Some(4), <<>>, Some(4)),
   Node("declaration", "buf", Some(Str("int")), 0, None, <<>>, Some(4)),
   Node("declaration", "buf", Some(Str("int")), 0, None, <<>>, None),
   Node("struct_specifier", "hdr", None, 0, None, <<>>, None),
   Node("struct_specifier", "hdr", None, 0, None, <<>>, Some(8)),
   Node("function_definition", "fill", Some(Str("void")), 0, None,
        <<ParamNode("identifier", "n", Some(Str("int"))),
          ParamNode("pointer_declarator", "p", Some(Str("char")))>>, None),
   Node("function_definition", "fill", Some(Str("void")), 0, None,
        <<ParamNode("identifier", "n", Some(Str("int")))>>, Some(2))}

CUseSite == <<Reference("buf", "array_access", None, 3, Some(1), None)>>

CSources ==
  {SourceText("c", Numbered(ns), CUseSite) : ns \in SeqsUpTo(CNodeChoices, 2) \ {<<>>}}

AdapterFiles ==
  {File("mod", ".py"), File("mod", ".c"), File("mod", ".H"), File("mod", ".txt"),
   <<"Makefile">>}

AdapterLanguages == {None, Some("python"), Some("c"), Some("rust")}

AdapterInit ==
  /\ \E src \in PySources \cup CSources, f \in AdapterFiles, lang \in AdapterLanguages :
       /\ last = [op |-> "extract", source |-> src, file_path |-> f, language |-> lang]
       /\ current_file = f
  /\ grammars \in SUBSET AllGrammars
  /\ buffer_refs = <<>>
  /\ buffer_symbols = <<>>
  /\ repo_symbols = <<>>
  /\ checker_out = <<>>
  /\ diagnostics = <<>>
  /\ pc = "input"
  /\ _repo_symbols = <<>>
  /\ _repo_path = None
  /\ _repo_mtime = 0
  /\ fs_mtime = EmptyDict
  /\ built_from = None

indexVars == <<_repo_symbols, _repo_path, _repo_mtime, fs_mtime, built_from, grammars>>

RunExtractSymbols ==
  /\ pc = "input"
  /\ buffer_symbols' = extract_symbols_from_source(last.source, last.file_path, last.language)
  /\ pc' = "symbols_done"
  /\ UNCHANGED <<buffer_refs, repo_symbols, current_file, checker_out, diagnostics, last>>
  /\ UNCHANGED indexVars

RunExtractReferences ==
  /\ pc = "input"
  /\ buffer_refs' = extract_references_from_source(last.source, last.file_path, last.language)
  /\ pc' = "refs_done"
  /\ UNCHANGED <<buffer_symbols, repo_symbols, current_file, checker_out, diagnostics, last>>
  /\ UNCHANGED indexVars

\* another buffer calls the extracted function with n arguments
RunCheckCall ==
  /\ pc = "symbols_done"
  /\ buffer_symbols # <<>>
  /\ \E n \in 0..(MaxParams + 1) :
       \E refs \in {<<Reference(buffer_symbols[1].name, "call", None, 1, None, Some(n))>>} :
         /\ buffer_refs' = refs
         /\ repo_symbols' = buffer_symbols
         /\ current_file' = File("app", ".py")
         /\ diagnostics' = check_function_signatures(refs, buffer_symbols, File("app", ".py"))
  /\ pc' = "call_checked"
  /\ UNCHANGED <<buffer_symbols, checker_out, last>>
  /\ UNCHANGED indexVars

AdapterNext == RunExtractSymbols \/ RunExtractReferences \/ RunCheckCall

AdapterSpec == AdapterInit /\ [][AdapterNext]_vars

\* the extension of the file name, in either case, when it is a recognized one
ExtensionLanguage(file_path) ==
  LET a == file_path[Len(file_path)]
  IN IF a \in {".py", ".PY"} THEN Some("python")
     ELSE IF a \in {".c", ".C", ".h", ".H"} THEN Some("c")
     ELSE None

\* the language an adapter call asks for
AskedLanguage ==
  IF last.language # None THEN last.language ELSE ExtensionLanguage(last.file_path)

\* C13: both adapters return an empty sequence when the extension is none of
\* .py/.c/.h and no language is given, when the language given is not a known one,
\* and when the grammar of the language asked for is not installed.
C13_AdapterRobust ==
  (/\ pc \in {"symbols_done", "refs_done"}
   /\ \/ AskedLanguage = None
      \/ AskedLanguage[1] \notin {"python", "c"}
      \/ AskedLanguage[1] \notin grammars)
  => buffer_symbols = <<>> /\ buffer_refs = <<>>

\* a C text in mod.c with no C grammar installed yields no symbol
C13_Witness ==
  /\ pc = "symbols_done"
  /\ last.language = None
  /\ last.file_path = File("mod", ".c")
  /\ last.source.lang = "c"
  /\ grammars = {"python"}
  /\ buffer_symbols = <<>>

-----------------------------------------------------------------------------
(* The type-consistency checker on its own *)

TypeRefShapes ==
  {Reference("x", "read", None, 0, None, None),
   Reference("x", "read", Some(Str("float")), 0, None, None),
   Reference("x", "read", Some(<<"int", " ">>), 0, None, None),
   Reference("x", "array_access", None, 0, Some(0), None),
   Reference("x", "call", Some(Str("float")), 0, None, Some(1))}

\* x declared in other.c as int and without a type, in the current file, and in
\* third.c as float
TypeRepoSymbols ==
  {Symbol("x", "variable", Some(Str("int")), File("other", ".c"), 10, None, <<>>, None),
   Symbol("x", "variable", None, File("other", ".c"), 11, None, <<>>, None),
   Symbol("x", "variable", Some(Str("float")), File("main", ".c"), 2, None, <<>>, None),
   Symbol("x", "variable", Some(Str("float")), File("third", ".c"), 12, None, <<>>, None)}

TypeBufferSymbols ==
  {Symbol("x", "variable", Some(Str("int")), File("main", ".c"), 2, None, <<>>, None),
   Symbol("x", "variable", None, File("main", ".c"), 2, None, <<>>, None)}

TypeInit ==
  /\ buffer_refs \in {Numbered(r) : r \in SeqsUpTo(TypeRefShapes, MaxRefs)}
  /\ buffer_symbols \in SeqsUpTo(TypeBufferSymbols, MaxBuf)
  /\ repo_symbols \in SeqsUpTo(TypeRepoSymbols, MaxRepo)
  /\ current_file = File("main", ".c")
  /\ checker_out = <<>>
  /\ diagnostics = <<>>
  /\ pc = "input"
  /\ IdleServer

RunCheckTypeMismatch ==
  /\ pc = "input"
  /\ diagnostics' = check_type_mismatch(buffer_refs, buffer_symbols, repo_symbols, current_file)
  /\ pc' = "type_done"
  /\ UNCHANGED <<buffer_refs, buffer_symbols, repo_symbols, current_file, checker_out>>
  /\ UNCHANGED serverVars

TypeNext == RunCheckTypeMismatch

TypeSpec == TypeInit /\ [][TypeNext]_vars

\* the repo declarations of a name outside the current file
DeclaredElsewhere(name) ==
  {j \in DOMAIN repo_symbols :
     repo_symbols[j].name = name /\ repo_symbols[j].file_path # current_file}

\* the type string of a declaration: its type when it has a non-empty one, else its kind
TypeOrKind(sym) ==
  IF sym.type # None /\ sym.type[1] # EmptyStr THEN sym.type[1] ELSE Str(sym.kind)

\* the type a reference is used as: its inferred type, else the explicit type the
\* buffer declares for the name (the last one), else the kind it declares it with
UsedAs(r) ==
  LET decls == {j \in DOMAIN buffer_symbols : buffer_symbols[j].name = r.name}
      typed == {j \in decls : buffer_symbols[j].type # None}
  IN IF r.inferred_type # None /\ r.inferred_type[1] # EmptyStr THEN r.inferred_type
     ELSE IF typed # {} THEN buffer_symbols[MaxOf(typed)].type
     ELSE IF decls # {} THEN Some(Str(buffer_symbols[MinOf(decls)].kind))
     ELSE None

Trimmed(str) == SelectSeq(str, LAMBDA a : a # " ")

\* C14: a read or array_access reference gets exactly one SNIPE_TYPE_MISMATCH
\* WARNING iff its name is declared in the repo outside the current file, it has a
\* used type (inferred, else the buffer's), and that type differs after trimming
\* from the type or kind of the first such repo declaration; the warning names
\* both types and the declaring location.  Call references get none.
C14_TypeMismatchIff ==
  pc = "type_done" =>
    \A k \in DOMAIN buffer_refs :
      LET r == buffer_refs[k]
          ds == DiagnosticsAt(r.line)
          first == repo_symbols[MinOf(DeclaredElsewhere(r.name))]
      IN IF /\ r.kind \in {"read", "array_access"}
            /\ DeclaredElsewhere(r.name) # {}
            /\ UsedAs(r) # None
            /\ UsedAs(r)[1] # EmptyStr
            /\ Trimmed(UsedAs(r)[1]) # Trimmed(TypeOrKind(first))
         THEN /\ Len(ds) = 1
              /\ ds[1].severity = "WARNING"
              /\ ds[1].code = "SNIPE_TYPE_MISMATCH"
              /\ ds[1].file = current_file
              /\ ds[1].message.name = r.name
              /\ ds[1].message.strs = <<TypeOrKind(first), first.file_path, UsedAs(r)[1]>>
              /\ ds[1].message.nums = <<first.line>>
         ELSE ds = <<>>

\* x read as float, declared int in other.c and then float in third.c: one warning
\* against other.c; the same read with "int " as its type gets none
C14_Witness ==
  /\ pc = "type_done"
  /\ Len(buffer_refs) = 2
  /\ buffer_refs[1].inferred_type = Some(Str("float"))
  /\ buffer_refs[2].inferred_type = Some(<<"int", " ">>)
  /\ Len(repo_symbols) = 2
  /\ repo_symbols[1].file_path = File("other", ".c")
  /\ repo_symbols[1].type = Some(Str("int"))
  /\ repo_symbols[2].file_path = File("third", ".c")
  /\ Len(diagnostics) = 1
  /\ diagnostics[1].line = 1

-----------------------------------------------------------------------------
(* The unsafe-function check on a parsed buffer *)

UnsafeRefShapes ==
  {Reference("strcpy", "call", None, 0, None, Some(2)),
   Reference("gets", "call", None, 0, None, None),
   Reference("gets", "call", None, 0, None, Some(0)),
   Reference("printf", "call", None, 0, None, Some(1)),
   Reference("strcpy", "read", None, 0, None, None)}

UnsafeSources ==
  {SourceText(lang, <<>>, Numbered(refs)) :
     lang \in {"c", "python"}, refs \in SeqsUpTo(UnsafeRefShapes, MaxRefs)}

UnsafeFiles ==
  {File("main", ".c"), File("main", ".h"), File("main", ".C"), File("main", ".py"),
   File("main", ".txt")}

UnsafeInit ==
  /\ \E src \in UnsafeSources, f \in UnsafeFiles, lang \in {None, Some("c"), Some("python")} :
       last = [op |-> "analyze", source |-> src, file_path |-> f, language |-> lang]
  /\ grammars = AllGrammars
  /\ buffer_refs = <<>>
  /\ buffer_symbols = <<>>
  /\ repo_symbols = <<>>
  /\ current_file = EmptyStr
  /\ checker_out = <<>>
  /\ diagnostics = <<>>
  /\ pc = "input"
  /\ _repo_symbols = <<>>
  /\ _repo_path = None
  /\ _repo_mtime = 0
  /\ fs_mtime = EmptyDict
  /\ built_from = None

\* server.py lines 133-136 and 172: the buffer is parsed, then checked under its
\* file name
RunCheckUnsafeFunctions ==
  /\ pc = "input"
  /\ \E parsed \in {parse_unsaved_buffer(last.source, last.file_path, last.language)} :
       /\ buffer_refs' = parsed.refs
       /\ buffer_symbols' = parsed.symbols
       /\ current_file' = last.file_path
       /\ diagnostics' = check_unsafe_functions(parsed.refs, parsed.symbols, repo_symbols,
                                                last.file_path)
  /\ pc' = "unsafe_done"
  /\ UNCHANGED <<repo_symbols, checker_out, last>>
  /\ UNCHANGED indexVars

UnsafeNext == RunCheckUnsafeFunctions

UnsafeSpec == UnsafeInit /\ [][UnsafeNext]_vars

DangerousNames == {"strcpy", "strcat", "sprintf", "gets", "scanf", "vsprintf", "tmpnam"}

\* C15: in a buffer analysed as C (by a .c/.h extension in either case, or by the
\* request's language) every call of a dangerous function gets exactly one
\* SNIPE_UNSAFE_FUNCTION WARNING with its remediation text, whatever its arg_count;
\* in a buffer analysed as Python there is no such diagnostic.
C15_UnsafeWhenAnalysedAsC ==
  pc = "unsafe_done" =>
    IF AskedLanguage = Some("c")
    THEN \A k \in DOMAIN buffer_refs :
           LET r == buffer_refs[k]
               ds == DiagnosticsAt(r.line)
           IN IF r.kind = "call" /\ r.name \in DangerousNames
              THEN /\ Len(ds) = 1
                   /\ ds[1].severity = "WARNING"
                   /\ ds[1].code = "SNIPE_UNSAFE_FUNCTION"
                   /\ ds[1].message.name = r.name
                   /\ ds[1].message.strs = <<Str(UNSAFE_FUNCTIONS[r.name])>>
              ELSE ds = <<>>
    ELSE diagnostics = <<>>

-----------------------------------------------------------------------------
(* server.py under the thread pool: the handlers are plain functions, so requests  *)
(* run on different threads and interleave between the statements that read and    *)
(* assign the globals.  pc and last are kept per thread; built_from is the root    *)
(* the list now in _repo_symbols was built from.                                   *)

Threads == 1..MaxThreads

ThreadIdle ==
  [op |-> "none", repo_path |-> EmptyStr, current_mtime |-> 0, symbols |-> <<>>,
   answered |-> FALSE, returned |-> <<>>, from |-> None]

ConcInit ==
  /\ pc = [t \in Threads |-> "idle"]
  /\ last = [t \in Threads |-> ThreadIdle]
  /\ _repo_symbols = <<>>
  /\ _repo_path = None
  /\ _repo_mtime = 0
  /\ fs_mtime = [r \in Roots |-> 1]
  /\ built_from = None
  /\ grammars = AllGrammars
  /\ buffer_refs = <<>>
  /\ buffer_symbols = <<>>
  /\ repo_symbols = <<>>
  /\ current_file = EmptyStr
  /\ checker_out = <<>>
  /\ diagnostics = <<>>

concFrame == <<buffer_refs, buffer_symbols, repo_symbols, current_file, checker_out,
               diagnostics, fs_mtime, grammars>>

\* a request for a directory reaches its handler on thread t
Receive(t, op, root) ==
  /\ pc[t] = "idle"
  /\ pc' = [pc EXCEPT ![t] = IF op = "refresh" THEN "refresh_build" ELSE "ensure_check"]
  /\ last' = [last EXCEPT ![t] = [ThreadIdle EXCEPT !.op = op, !.repo_path = root]]
  /\ UNCHANGED <<_repo_symbols, _repo_path, _repo_mtime, built_from>>
  /\ UNCHANGED concFrame

\* _ensure_repo_symbols, lines 106-107
EnsureCheck(t) ==
  /\ pc[t] = "ensure_check"
  /\ pc' = [pc EXCEPT ![t] = IF NeedsRebuild(last[t].repo_path, FALSE)
                              THEN "ensure_path" ELSE "ensure_return"]
  /\ last' = [last EXCEPT ![t].current_mtime = _max_repo_mtime(last[t].repo_path)]
  /\ UNCHANGED <<_repo_symbols, _repo_path, _repo_mtime, built_from>>
  /\ UNCHANGED concFrame

\* line 109
EnsureRecordPath(t) ==
  /\ pc[t] = "ensure_path"
  /\ _repo_path' = Some(last[t].repo_path)
  /\ pc' = [pc EXCEPT ![t] = "ensure_build"]
  /\ UNCHANGED <<_repo_symbols, _repo_mtime, built_from, last>>
  /\ UNCHANGED concFrame

\* line 111
EnsureBuild(t) ==
  /\ pc[t] = "ensure_build"
  /\ _repo_symbols' = build_repo_symbol_table(last[t].repo_path)
  /\ built_from' = BuiltFrom(last[t].repo_path)
  /\ pc' = [pc EXCEPT ![t] = "ensure_mtime"]
  /\ UNCHANGED <<_repo_path, _repo_mtime, last>>
  /\ UNCHANGED concFrame

\* line 112
EnsureRecordMtime(t) ==
  /\ pc[t] = "ensure_mtime"
  /\ _repo_mtime' = last[t].current_mtime
  /\ pc' = [pc EXCEPT ![t] = "ensure_return"]
  /\ UNCHANGED <<_repo_symbols, _repo_path, built_from, last>>
  /\ UNCHANGED concFrame

\* line 113, and the handler answers with what it got
EnsureReturn(t) ==
  /\ pc[t] = "ensure_return"
  /\ last' = [last EXCEPT ![t].returned = _repo_symbols, ![t].from = built_from,
                          ![t].answered = TRUE]
  /\ pc' = [pc EXCEPT ![t] = "idle"]
  /\ UNCHANGED <<_repo_symbols, _repo_path, _repo_mtime, built_from>>
  /\ UNCHANGED concFrame

\* refresh, line 200
RefreshBuild(t) ==
  /\ pc[t] = "refresh_build"
  /\ last' = [last EXCEPT ![t].symbols = build_repo_symbol_table(last[t].repo_path),
                          ![t].from = BuiltFrom(last[t].repo_path)]
  /\ pc' = [pc EXCEPT ![t] = "refresh_symbols"]
  /\ UNCHANGED <<_repo_symbols, _repo_path, _repo_mtime, built_from>>
  /\ UNCHANGED concFrame

\* line 202
RefreshStoreSymbols(t) ==
  /\ pc[t] = "refresh_symbols"
  /\ _repo_symbols' = last[t].symbols
  /\ built_from' = last[t].from
  /\ pc' = [pc EXCEPT ![t] = "refresh_path"]
  /\ UNCHANGED <<_repo_path, _repo_mtime, last>>
  /\ UNCHANGED concFrame

\* lines 203-205
RefreshStorePath(t) ==
  /\ pc[t] = "refresh_path"
  /\ _repo_path' = Some(last[t].repo_path)
  /\ last' = [last EXCEPT ![t].returned = last[t].symbols, ![t].answered = TRUE]
  /\ pc' = [pc EXCEPT ![t] = "idle"]
  /\ UNCHANGED <<_repo_symbols, _repo_mtime, built_from>>
  /\ UNCHANGED concFrame

ConcNext ==
  \E t \in Threads :
    \/ \E op \in {"analyze", "symbols", "graph", "refresh"}, root \in Roots :
         Receive(t, op, root)
    \/ EnsureCheck(t)
    \/ EnsureRecordPath(t)
    \/ EnsureBuild(t)
    \/ EnsureRecordMtime(t)
    \/ EnsureReturn(t)
    \/ RefreshBuild(t)
    \/ RefreshStoreSymbols(t)
    \/ RefreshStorePath(t)

ConcSpec == ConcInit /\ [][ConcNext]_vars

\* the recorded root is not the root the cached list was built from
TornIndex ==
  _repo_path # None /\ built_from # None /\ built_from[1].root # _repo_path[1]

\* C16: no analyze, Symbols query or graph query reads the index while its recorded
\* root and its cached list belong to different roots, and every such request for a
\* root is answered with a list built from that root.
C16_NoTornIndexObserved ==
  /\ \A t \in Threads : pc[t] \in {"ensure_check", "ensure_return"} => ~TornIndex
  /\ \A t \in Threads :
       (last[t].answered /\ last[t].op # "refresh")
       => (last[t].from # None /\ last[t].from[1].root = last[t].repo_path)

-----------------------------------------------------------------------------
(* Properties of the extracted symbols *)

\* the adapter call is a Python def parsed with the Python grammar
PythonDefExtracted ==
  /\ pc \in {"symbols_done", "call_checked"}
  /\ AskedLanguage = Some("python")
  /\ "python" \in grammars
  /\ last.source.lang = "python"
  /\ last.source.decls[1].node = "function_definition"

\* the declared parameters of the def, the receiver left out
DeclaredParams ==
  SelectSeq(last.source.decls[1].params, LAMBDA p : p.name # "self")

DefaultForms == {"default_parameter", "typed_default_parameter"}

\* C17: the function Symbol of a Python def has one params entry per declared
\* parameter other than self, in order, whatever its form, with has_default true
\* exactly for those declared with a default; so a call giving a value to every
\* declared parameter of a def with a defaulted parameter gets no signature drift.
C17_PythonParams ==
  PythonDefExtracted =>
    /\ Len(buffer_symbols) = 1
    /\ buffer_symbols[1].kind = "function"
    /\ Len(buffer_symbols[1].params) = Len(DeclaredParams)
    /\ \A i \in DOMAIN DeclaredParams :
         /\ buffer_symbols[1].params[i].name = DeclaredParams[i].name
         /\ buffer_symbols[1].params[i].has_default
              = Some(DeclaredParams[i].form \in DefaultForms)
    /\ (/\ pc = "call_checked"
        /\ buffer_refs[1].arg_count = Some(Len(DeclaredParams))
        /\ \E i \in DOMAIN DeclaredParams : DeclaredParams[i].form \in DefaultForms)
       => diagnostics = <<>>

\* the adapter call is a C text parsed with the C grammar, or a Python text parsed
\* with the Python grammar
Extracted ==
  /\ pc = "symbols_done"
  /\ AskedLanguage # None
  /\ AskedLanguage[1] \in grammars
  /\ AskedLanguage[1] = last.source.lang

\* C18: every extracted Symbol has kind array iff its array_size is set; the Symbol
\* of a function definition or struct specifier has kind function or struct; a
\* Symbol that is no function has no params.
C18_SymbolShape ==
  Extracted =>
    /\ \A i \in DOMAIN buffer_symbols :
         /\ buffer_symbols[i].kind = "array" <=> buffer_symbols[i].array_size # None
         /\ buffer_symbols[i].kind # "function" => buffer_symbols[i].params = <<>>
    /\ \A i \in DOMAIN buffer_symbols, j \in DOMAIN last.source.decls :
         LET n == last.source.decls[j]
         IN (n.name = buffer_symbols[i].name /\ n.line = buffer_symbols[i].line)
            => /\ n.node = "function_definition" => buffer_symbols[i].kind = "function"
               /\ n.node = "struct_specifier" => buffer_symbols[i].kind = "struct"

-----------------------------------------------------------------------------
(* The checker calls of analyze taken in any order.  pc is the list of checkers    *)
(* that have run, checker_out their results in that order, last the arguments as   *)
(* they were before the first call.                                                *)

Checkers == {"type", "bounds", "signatures", "unsafe"}

\* one call of lines 162-175
CheckerResult(c, refs, bsyms, rsyms, cf) ==
  CASE c = "type" -> check_type_mismatch(refs, bsyms, rsyms, cf)
    [] c = "bounds" -> check_array_bounds(refs, bsyms, rsyms, cf)
    [] c = "signatures" -> check_function_signatures(refs, rsyms, cf)
    [] c = "unsafe" -> check_unsafe_functions(refs, bsyms, rsyms, cf)

\* a type checker that removes the current file's symbols from the list it is given
ArgumentsAfterFiltering(c, refs, bsyms, rsyms, cf) ==
  [refs |-> refs, bsyms |-> bsyms,
   rsyms |-> IF c = "type" THEN SelectSeq(rsyms, LAMBDA d : d.file_path # cf) ELSE rsyms]

\* the argument lists after a checker returns: no checker assigns to, appends to or
\* removes from a list or a dict it was given
ArgumentsAfter(c, refs, bsyms, rsyms, cf) ==
  [refs |-> refs, bsyms |-> bsyms, rsyms |-> rsyms]

PipelineRefShapes ==
  {Reference("arr", "array_access", None, 0, Some(2), None),
   Reference("x", "read", Some(Str("float")), 0, None, None),
   Reference("greet", "call", None, 0, None, Some(1)),
   Reference("strcpy", "call", None, 0, None, Some(2))}

\* arr[2] declared in the current file on disk and greet(name, greeting) elsewhere,
\* x declared int elsewhere
PipelineRepo ==
  <<Symbol("arr", "array", Some(Str("int")), File("main", ".c"), 5, Some(2), <<>>, None),
    Symbol("greet", "function", None, File("main", ".c"), 1, None,
           <<Param("name", None), Param("greeting", None)>>, None),
    Symbol("x", "variable", Some(Str("int")), File("other", ".c"), 10, None, <<>>, None),
    Symbol("greet", "function", None, File("other", ".c"), 3, None, <<>>, None)>>

PipelineInit ==
  /\ buffer_refs \in {Numbered(r) : r \in SeqsUpTo(PipelineRefShapes, MaxRefs)}
  /\ buffer_symbols \in
       {<<>>, <<Symbol("x", "variable", Some(Str("int")), File("main", ".c"), 2, None, <<>>, None)>>}
  /\ repo_symbols \in {SubSeq(PipelineRepo, 1, k) : k \in 0..Len(PipelineRepo)}
  /\ current_file = File("main", ".c")
  /\ checker_out = <<>>
  /\ diagnostics = <<>>
  /\ pc = <<>>
  /\ last = [op |-> "arguments", refs |-> buffer_refs, bsyms |-> buffer_symbols,
             rsyms |-> repo_symbols]
  /\ grammars = AllGrammars
  /\ _repo_symbols = <<>>
  /\ _repo_path = None
  /\ _repo_mtime = 0
  /\ fs_mtime = EmptyDict
  /\ built_from = None

RunChecker(c) ==
  /\ c \notin {pc[i] : i \in DOMAIN pc}
  /\ checker_out' = Append(checker_out,
                           CheckerResult(c, buffer_refs, buffer_symbols, repo_symbols,
                                         current_file))
  /\ \E after \in {ArgumentsAfter(c, buffer_refs, buffer_symbols, repo_symbols, current_file)} :
       /\ buffer_refs' = after.refs
       /\ buffer_symbols' = after.bsyms
       /\ repo_symbols' = after.rsyms
  /\ pc' = Append(pc, c)
  /\ UNCHANGED <<current_file, diagnostics, last>>
  /\ UNCHANGED indexVars

\* lines 176-184, once every checker has run
RunDeduplicate ==
  /\ {pc[i] : i \in DOMAIN pc} = Checkers
  /\ diagnostics' = Deduplicate(ExtendAll(checker_out))
  /\ pc' = Append(pc, "deduplicate")
  /\ UNCHANGED <<buffer_refs, buffer_symbols, repo_symbols, current_file, checker_out, last>>
  /\ UNCHANGED indexVars

PipelineNext == (\E c \in Checkers : RunChecker(c)) \/ RunDeduplicate

PipelineSpec == PipelineInit /\ [][PipelineNext]_vars

SetOf(seq) == {seq[i] : i \in DOMAIN seq}

-----------------------------------------------------------------------------
(* build_repo_graph on its own *)

GraphSymbols ==
  {Symbol(name, "variable", Some(Str("int")), file, line, None, <<>>, None) :
     name \in {"total", "count"}, file \in {File("a", ".c"), File("b", ".c")},
     line \in {1, 2}}

GraphInit ==
  /\ repo_symbols \in SeqsUpTo(GraphSymbols, MaxRepo)
  /\ buffer_refs = <<>>
  /\ buffer_symbols = <<>>
  /\ current_file = EmptyStr
  /\ checker_out = <<>>
  /\ diagnostics = <<>>
  /\ pc = "input"
  /\ IdleServer

RunBuildRepoGraph ==
  /\ pc = "input"
  /\ \E graph \in {build_repo_graph(repo_symbols)} :
       last' = [op |-> "graph", nodes |-> graph.nodes, edges |-> graph.edges]
  /\ pc' = "graph_done"
  /\ UNCHANGED <<buffer_refs, buffer_symbols, repo_symbols, current_file, checker_out,
                 diagnostics>>
  /\ UNCHANGED indexVars

GraphNext == RunBuildRepoGraph

GraphSpec == GraphInit /\ [][GraphNext]_vars

\* the (file_path, line, name) of the input symbols
InputTriples ==
  {<<repo_symbols[i].file_path, repo_symbols[i].line, repo_symbols[i].name>> :
     i \in DOMAIN repo_symbols}

\* the edges between two node ids, in either direction
EdgesBetween(a, b) ==
  {k \in DOMAIN last.edges :
     \/ last.edges[k].source = a /\ last.edges[k].target = b
     \/ last.edges[k].source = b /\ last.edges[k].target = a}

\* C20: the graph has exactly one node per distinct (file_path, line, name) of the
\* input; every edge is a REFERENCES edge between two distinct nodes of one name in
\* different files; every two such nodes are joined by exactly one edge.
C20_GraphShape ==
  pc = "graph_done" =>
    /\ {last.nodes[i].id : i \in DOMAIN last.nodes} = InputTriples
    /\ Len(last.nodes) = Cardinality(InputTriples)
    /\ \A k \in DOMAIN last.edges :
         /\ last.edges[k].type = "REFERENCES"
         /\ last.edges[k].source \in InputTriples
         /\ last.edges[k].target \in InputTriples
         /\ last.edges[k].source # last.edges[k].target
         /\ last.edges[k].source[3] = last.edges[k].target[3]
         /\ last.edges[k].source[1] # last.edges[k].target[1]
    /\ \A a \in InputTriples, b \in InputTriples :
         (a # b /\ a[3] = b[3] /\ a[1] # b[1]) => Cardinality(EdgesBetween(a, b)) = 1

-----------------------------------------------------------------------------
(* The name lookups of the bounds and signature checkers, on one buffer that     *)
(* calls add and subscripts arr, against declarations of both in several files   *)

\* add declared twice in the current file and once in each of two other files,
\* each time with another number of parameters; arr sized in two repo files
LookupRepoSymbols ==
  {Symbol("add", "function", Some(Str("int")), f[1], f[2], None,
          [i \in 1..f[3] |-> Param(ParamNames[i], None)], None) :
     f \in {<<File("main", ".c"), 1, 1>>, <<File("main", ".c"), 9, 2>>,
            <<File("util", ".c"), 3, 0>>, <<File("other", ".c"), 4, 3>>}}
  \cup {Symbol("arr", "array", Some(Str("int")), File("core", ".c"), 5, Some(2), <<>>, None),
        Symbol("arr", "array", Some(Str("int")), File("util", ".c"), 6, Some(4), <<>>, None)}

\* what the buffer declares: arr with a size, arr without one, add itself
LookupBufferSymbols ==
  {Symbol("arr", "array", Some(Str("int")), File("main", ".c"), 2, Some(3), <<>>, None),
   Symbol("arr", "variable", Some(Str("int")), File("main", ".c"), 2, None, <<>>, None),
   Symbol("arr", "array", Some(Str("int")), EmptyStr, 7, Some(1), <<>>, None)}

LookupRefShapes ==
  {Reference("add", "call", None, 0, None, Some(1)),
   Reference("add", "call", None, 0, None, Some(0)),
   Reference("arr", "array_access", None, 0, Some(3), None),
   Reference("arr", "array_access", None, 0, Some(1), None)}

LookupInit ==
  /\ buffer_refs \in {Numbered(r) : r \in SeqsUpTo(LookupRefShapes, MaxRefs)}
  /\ buffer_symbols \in SeqsUpTo(LookupBufferSymbols, MaxBuf)
  /\ repo_symbols \in SeqsUpTo(LookupRepoSymbols, MaxRepo)
  /\ current_file = File("main", ".c")
  /\ checker_out = <<>>
  /\ diagnostics = <<>>
  /\ pc = "input"
  /\ IdleServer

\* server.py line 163
RunBoundsLookup ==
  /\ pc = "input"
  /\ checker_out' = <<check_array_bounds(buffer_refs, buffer_symbols, repo_symbols,
                                         current_file)>>
  /\ diagnostics' = ExtendAll(checker_out')
  /\ pc' = "bounds_looked_up"
  /\ UNCHANGED <<buffer_refs, buffer_symbols, repo_symbols, current_file>>
  /\ UNCHANGED serverVars

\* server.py line 164
RunSignatureLookup ==
  /\ pc = "bounds_looked_up"
  /\ checker_out' = Append(checker_out,
                           check_function_signatures(buffer_refs, repo_symbols, current_file))
  /\ diagnostics' = ExtendAll(checker_out')
  /\ pc' = "lookups_done"
  /\ UNCHANGED <<buffer_refs, buffer_symbols, repo_symbols, current_file>>
  /\ UNCHANGED serverVars

LookupNext == RunBoundsLookup \/ RunSignatureLookup

LookupSpec == LookupInit /\ [][LookupNext]_vars

\* the diagnostics of one checker at a reference's line
ReportedAt(ds, line) == SelectSeq(ds, LAMBDA d : d.line = line)

\* the sized declaration the bounds lookup knows a name by: a buffer one when the
\* buffer has any, else a repo one
SizedDeclaration(name) ==
  IF SizedIn(buffer_symbols, name) # {}
  THEN Some(buffer_symbols[MaxOf(SizedIn(buffer_symbols, name))])
  ELSE IF SizedIn(repo_symbols, name) # {}
  THEN Some(repo_symbols[MaxOf(SizedIn(repo_symbols, name))])
  ELSE None

-----------------------------------------------------------------------------
(* server.py when the Builder, or the creation of the snapshot directory, raises *)

\* the path a handler hands to _ensure_repo_symbols or to the Builder, None when it
\* answers 400 before that
HandlerRoot(op, raw) ==
  IF op \in {"analyze", "refresh"}
  THEN (IF IsDir(Resolve(raw)) THEN Some(Resolve(raw)) ELSE None)
  ELSE (IF raw = EmptyStr THEN None ELSE Some(raw))

\* _ensure_repo_symbols, lines 109-111: _repo_path is assigned, then mkdir or
\* build_repo_symbol_table raises; _repo_symbols and _repo_mtime keep their values
\* and the request is answered 500
EnsureRaises(op, raw) ==
  /\ op \in {"analyze", "symbols", "graph"}
  /\ HandlerRoot(op, raw) # None
  /\ NeedsRebuild(HandlerRoot(op, raw)[1], FALSE)
  /\ _repo_path' = HandlerRoot(op, raw)
  /\ last' = Response(op, raw, 500, NotRun, CacheFor(raw), <<>>, 0, EmptyStr, 0)
  /\ pc' = "failed"
  /\ NoAnalysis
  /\ UNCHANGED <<_repo_symbols, _repo_mtime, fs_mtime, built_from, grammars>>

\* refresh, line 200: build_repo_symbol_table raises before any global is assigned
RefreshRaises(raw) ==
  /\ HandlerRoot("refresh", raw) # None
  /\ last' = Response("refresh", raw, 500, NotRun, CacheFor(raw), <<>>, 0, EmptyStr, 0)
  /\ pc' = "failed"
  /\ NoAnalysis
  /\ UNCHANGED <<_repo_symbols, _repo_path, _repo_mtime, fs_mtime, built_from, grammars>>

FaultNext ==
  \/ Next
  \/ \E op \in {"analyze", "symbols", "graph"}, raw \in RequestRoots : EnsureRaises(op, raw)
  \/ \E raw \in RequestRoots : RefreshRaises(raw)

FaultSpec == Init /\ [][FaultNext]_vars

\* what the Builder's last run returned
LastBuilt ==
  IF built_from[1].root \in Roots
  THEN BuildFiles(built_from[1].root, DiskFiles(built_from[1].root), built_from[1].mtime)
  ELSE <<>>

\* C22: whenever the index records a root, the cached sequence is what the Builder
\* returned for that root, and the recorded modification time is the root's maximum
\* modification time read for that build; this holds after every analyze, refresh,
\* Symbols query and graph query, failed ones included.
C22_IndexConsistent ==
  _repo_path # None =>
    /\ built_from # None
    /\ built_from[1].root = Resolve(_repo_path[1])
    /\ _repo_symbols = LastBuilt
    /\ _repo_mtime = built_from[1].mtime

-----------------------------------------------------------------------------
(* The array-bounds check on a parsed C buffer that declares one array a and     *)
(* subscripts it                                                                 *)

\* "int a[n] = {0};" (the grammar gives the size), "int a[n];" (the source-line
\* pass gives it) and "int a;", on line 1
BufferDeclarations ==
  {Node("declaration", "a", Some(Str("int")), 1, Some(n), <<>>, Some(n)) : n \in {1, MaxSize}}
  \cup {Node("declaration", "a", Some(Str("int")), 1, None, <<>>, Some(n)) : n \in {1, MaxSize}}
  \cup {Node("declaration", "a", Some(Str("int")), 1, None, <<>>, None)}

\* a[i] for a literal i, and a[k] for a variable k
SubscriptShapes ==
  {Reference("a", "array_access", None, 0, iv, None) :
     iv \in {None} \cup {Some(i) : i \in 0..MaxSize}}

\* the use sites stand on the lines after the declaration
BufferSources ==
  {SourceText("c", <<d>>, [i \in DOMAIN uses |-> [uses[i] EXCEPT !.line = i + 1]]) :
     d \in BufferDeclarations, uses \in SeqsUpTo(SubscriptShapes, MaxRefs)}

BufferInit ==
  /\ \E src \in BufferSources :
       last = [op |-> "analyze", source |-> src, file_path |-> File("main", ".c"),
               language |-> None]
  /\ grammars = AllGrammars
  /\ buffer_refs = <<>>
  /\ buffer_symbols = <<>>
  /\ repo_symbols = <<>>
  /\ current_file = EmptyStr
  /\ checker_out = <<>>
  /\ diagnostics = <<>>
  /\ pc = "input"
  /\ _repo_symbols = <<>>
  /\ _repo_path = None
  /\ _repo_mtime = 0
  /\ fs_mtime = EmptyDict
  /\ built_from = None

\* server.py lines 133-136 and 163: the buffer is parsed and its references are
\* checked against its own declarations
RunCheckBufferBounds ==
  /\ pc = "input"
  /\ \E parsed \in {parse_unsaved_buffer(last.source, last.file_path, last.language)} :
       /\ buffer_refs' = parsed.refs
       /\ buffer_symbols' = parsed.symbols
       /\ current_file' = last.file_path
       /\ diagnostics' = check_array_bounds(parsed.refs, parsed.symbols, repo_symbols,
                                            last.file_path)
  /\ pc' = "buffer_checked"
  /\ UNCHANGED <<repo_symbols, checker_out, last>>
  /\ UNCHANGED indexVars

BufferNext == RunCheckBufferBounds

BufferSpec == BufferInit /\ [][BufferNext]_vars

\* the size the buffer's text declares a with
DeclaredSize == last.source.decls[1].subscript

\* every subscript of a in the text has a literal index within the declared size
OnlyInBoundsUses ==
  \A i \in DOMAIN last.source.refs :
    /\ last.source.refs[i].index_value # None
    /\ last.source.refs[i].index_value[1] \in 0..(DeclaredSize[1] - 1)

\* C23: a C buffer that declares a[n] and subscripts a only with literal indices
\* in 0..n-1 gets no SNIPE_ARRAY_BOUNDS diagnostic, and no Reference of the buffer
\* is an array_access at the declaration with the declared size as its index.
C23_DeclarationIsNoUse ==
  (pc = "buffer_checked" /\ DeclaredSize # None)
  => /\ \A i \in DOMAIN buffer_refs :
          ~(/\ buffer_refs[i].kind = "array_access"
            /\ buffer_refs[i].line = last.source.decls[1].line
            /\ buffer_refs[i].index_value = DeclaredSize)
     /\ OnlyInBoundsUses
          => \A i \in DOMAIN diagnostics : diagnostics[i].code # "SNIPE_ARRAY_BOUNDS"

-----------------------------------------------------------------------------
(* analyze of a file of the repository /r3, with the other editors' buffers     *)

\* app/main.c being edited: total is now a float
AppEdited ==
  SourceText("c",
    <<Decl("total", "variable", Some(Str("float")), 1, None, <<>>),
      Decl("balance", "variable", Some(Str("float")), 2, None, <<>>)>>,
    AppSource.refs)

\* app/main.c named relative to the root or as an absolute path, with "/" or "\"
AppPaths ==
  {AppFile, AppFileBackslash, R3 \o <<"/">> \o AppFile, R3 \o <<"/">> \o AppFileBackslash}

\* the open editors hold files of /r3 exactly as they are saved
SavedBuffers ==
  {<<>>,
   <<OpenBuffer(AcctFile, AcctSource)>>,
   <<OpenBuffer(R3 \o <<"/">> \o AcctFile, AcctSource)>>,
   <<OpenBuffer(BankFile, BankSource)>>,
   <<OpenBuffer(AcctFile, AcctSource), OpenBuffer(BankFile, BankSource)>>,
   <<OpenBuffer(AppFile, AppSource)>>}

OverlayRequests ==
  {[repo_path |-> root, content |-> c, file_path |-> f, open_buffers |-> obs] :
     root \in {R3, NoDir}, c \in {AppSource, AppEdited}, f \in AppPaths, obs \in SavedBuffers}

OverlayInit ==
  /\ buffer_refs = <<>>
  /\ buffer_symbols = <<>>
  /\ repo_symbols = <<>>
  /\ current_file = EmptyStr
  /\ checker_out = <<>>
  /\ diagnostics = <<>>
  /\ pc = "started"
  /\ _repo_symbols = <<>>
  /\ _repo_path = None
  /\ _repo_mtime = 0
  /\ fs_mtime = [r \in {R3} |-> 1]
  /\ built_from = None
  /\ last = Response("none", EmptyStr, 200, NotRun, "none", <<>>, 0, EmptyStr, 0)
  /\ grammars = AllGrammars

OverlayNext ==
  \/ \E req \in OverlayRequests :
       AnalyzeFile(req.repo_path, req.content, req.file_path, req.open_buffers)
  \/ Touch(R3)

OverlaySpec == OverlayInit /\ [][OverlayNext]_vars

\* the file of the root a path names, None when it names none
FileNamed(path, root) ==
  LET named == {i \in DOMAIN DiskFiles(root) : Denotes(path, root, DiskFiles(root)[i])}
  IN IF named = {} THEN None ELSE Some(DiskFiles(root)[MinOf(named)])

\* an open buffer holds a file of the root with the content the file has on disk
SuppliesSavedContent(ob, root) ==
  /\ FileNamed(ob.file_path, root) # None
  /\ ob.content = DiskSource(root, FileNamed(ob.file_path, root)[1], fs_mtime[root])

\* the diagnostics of the same request without open_buffers
WithoutOpenBuffers ==
  Deduplicate(ExtendAll(Pipeline(buffer_refs, buffer_symbols, last.returned, current_file)))

\* C24: an analyze whose open_buffers give, for files of the root, the content
\* they have on disk returns the diagnostics of the same request without
\* open_buffers, and the type and signature checkers look every name up to the
\* declaration they would look it up to without them.
C24_OverlayNeutral ==
  (/\ pc = "analyzed"
   /\ last.open_buffers # <<>>
   /\ \A i \in DOMAIN last.open_buffers :
        SuppliesSavedContent(last.open_buffers[i], Resolve(last.raw)))
  => /\ diagnostics = WithoutOpenBuffers
     /\ RepoByName(EmptyDict, repo_symbols, current_file)
          = RepoByName(EmptyDict, last.returned, current_file)
     /\ FuncsByName(EmptyDict, repo_symbols, current_file)
          = FuncsByName(EmptyDict, last.returned, current_file)

\* C25: when the analysed file is a file of the repository, however the request
\* spells its path, the type checker's map holds no index Symbol of that file and no
\* SNIPE_TYPE_MISMATCH cites a declaration in that file.
C25_OwnFileExcluded ==
  (pc = "analyzed" /\ FileNamed(current_file, Resolve(last.raw)) # None)
  => LET own == FileNamed(current_file, Resolve(last.raw))[1]
         repo_by_name == RepoByName(EmptyDict, repo_symbols, current_file)
     IN /\ \A name \in DOMAIN repo_by_name : repo_by_name[name].file_path # own
        /\ \A i \in DOMAIN diagnostics :
             diagnostics[i].code = "SNIPE_TYPE_MISMATCH"
             => diagnostics[i].message.strs[2] # own

====
